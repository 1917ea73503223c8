--------------------------- MODULE DashboardProofs ---------------------------
(* Proofs about Dashboard for any number of requests, rows and codes.      *)
EXTENDS Dashboard, RegistryProofs

(***************************************************************************)
(* Rows that were read tell, of every event, something that was seen while *)
(* the page asked.  The list of assignments is such a set of rows when it  *)
(* is read, because until then every state of the table was remembered; it *)
(* stays one, because the columns of a row never change.                   *)
(***************************************************************************)
Tells(rows, of, without, with) ==
  \A e \in Event :
    IF \E x \in rows : of[x].event = e THEN e \in with ELSE e \in without

Asked(l) ==
  pending[l] \in Proc =>
    /\ page = "shown" /\ status[l] = "loading"
    /\ step[pending[l]] # "idle" /\ req[pending[l]].op = LoadOp[l]

AnswerTells ==
  LET q == pending["assignments"] IN
    q \in Proc /\ step[q] = "replied" /\ result[q] = 200 =>
      answer[q] \subseteq used /\ Tells(answer[q], triple, bare, held)

DataTells ==
  /\ status["events"] = "success" => data["events"] \subseteq Event
  /\ status["assignments"] = "success" =>
       /\ data["assignments"] \subseteq Assignment \cap used
       /\ Tells(data["assignments"], triple, bare, held)

Remembered ==
  /\ page = "away" => status = Loading
  /\ page = "shown" /\ status["assignments"] = "loading" =>
       Tells(assignments, triple, bare, held)

ScreenTyped ==
  /\ page \in {"away", "shown"}
  /\ status \in [List -> {"loading", "error", "success"}]
  /\ pending \in [List -> Proc \cup {NoProc}]
  /\ data \in [List -> SUBSET Row]
  /\ bare \subseteq Event /\ held \subseteq Event

DashboardInv ==
  /\ RInv /\ ScreenTyped /\ \A l \in List : Asked(l)
  /\ AnswerTells /\ DataTells /\ Remembered

LEMMA Lists ==
  /\ List = {"persons", "events", "assignments"}
  /\ LoadOp["persons"] = "listPersons" /\ LoadOp["events"] = "listEvents"
  /\ LoadOp["assignments"] = "listAssignments"
  BY DEF List, LoadOp

-----------------------------------------------------------------------------
(* What a step of the API, of its clients or of an operator leaves.        *)

LEMMA ServeServes ==
  ASSUME RInv, NEW p \in Proc, Serve(p)
  PROVE  /\ RowsKeep
         /\ \A q \in Proc : req[q].op # "createAssignment" => Serves(q)
<1>1. CASE ~ \E x \in Assignment : Assign(p, x)
  BY <1>1, ServeAddsNoRow DEF NoNewRow, RowsKeep
<1>2. ASSUME NEW x \in Assignment, Assign(p, x)
      PROVE  /\ RowsKeep
             /\ \A q \in Proc : req[q].op # "createAssignment" => Serves(q)
  <2>1. step[p] = "insertAssignment" /\ RegistryTypeOK
    BY <1>2, AssignIsInsert DEF RInv
  <2>2. req[p].op = "createAssignment"
    BY <2>1 DEF RInv, ProcInv, OnItsWay, AssignSteps
  <2>3. /\ x \notin used /\ used' = used \cup {x} /\ assignments' = assignments \cup {x}
        /\ triple' = [triple EXCEPT ![x] = Wanted(req[p])]
    BY <1>2 DEF Assign, Commit
  <2>4. RowsKeep
    BY <2>1, <2>3 DEF RowsKeep, RegistryTypeOK
  <2>5. ASSUME NEW q \in Proc, q # p PROVE Kept(q)
    BY <1>2, <2>1, <2>5 DEF Assign, Commit, Kept, RegistryTypeOK
  <2> QED BY <2>2, <2>4, <2>5, KeptServes
<1> QED BY <1>1, <1>2

LEMMA OperateServes ==
  ASSUME RInv, Operate
  PROVE  RowsKeep /\ \A q \in Proc : Serves(q)
  BY OperateAddsNoRow DEF NoNewRow, RowsKeep

LEMMA StartServes ==
  ASSUME RInv, NEW p \in Proc, NEW r, WellFormed(r), Start(p, r)
  PROVE  /\ RInv' /\ RowsKeep /\ step[p] = "idle"
         /\ \A q \in Proc : q # p => Serves(q)
         /\ req'[p] = r /\ step'[p] = "access"
<1>1. RegistryTypeOK /\ step[p] = "idle"
  BY DEF RInv, Start
<1>2. ASSUME NEW q \in Proc, q # p PROVE Kept(q)
  BY <1>1, <1>2 DEF Start, Kept, RegistryTypeOK
<1>3. req'[p] = r /\ step'[p] = "access" /\ RowsKeep
  BY <1>1 DEF Start, tables, RowsKeep, RegistryTypeOK
<1> QED BY <1>1, <1>2, <1>3, StartKeeps, KeptServes

LEMMA ReleaseServes ==
  ASSUME RInv, NEW p \in Proc, Release(p)
  PROVE  /\ RInv' /\ RowsKeep /\ UNCHANGED <<triple, used, assignments>>
         /\ \A q \in Proc : q # p => Serves(q)
<1>1. RegistryTypeOK
  BY DEF RInv
<1>2. ASSUME NEW q \in Proc, q # p PROVE Kept(q)
  BY <1>1, <1>2 DEF Release, Kept, RegistryTypeOK
<1>3. RowsKeep /\ UNCHANGED <<triple, used, assignments>>
  BY DEF Release, tables, RowsKeep
<1> QED BY <1>2, <1>3, ReleaseKeeps, KeptServes

LEMMA SameRegistry ==
  ASSUME RInv, UNCHANGED <<tables, account, requests, history>>
  PROVE  RInv' /\ RowsKeep /\ \A q \in Proc : Serves(q)
<1>1. TablesKeep /\ \A q \in Proc : Kept(q)
  BY DEF tables, account, requests, history, TablesKeep, Kept, RInv, RegistryTypeOK
<1>2. RegistryTypeOK' /\ TableInv'
  BY DEF tables, account, requests, history, RInv, RegistryTypeOK, TableInv,
     NoDangling, RolesAllOrNothing, RowsAreUsed
<1>3. RowsKeep
  BY DEF RowsKeep, tables
<1> QED BY <1>1, <1>2, <1>3, OthersKeep, KeptServes DEF RInv

-----------------------------------------------------------------------------
(* What is remembered.                                                     *)

LEMMA Remembers ==
  ASSUME RInv, ScreenTyped, Remember, page' = "shown"
  PROVE  /\ bare \subseteq bare' /\ held \subseteq held'
         /\ bare' \subseteq Event /\ held' \subseteq Event
         /\ status["assignments"] = "loading" =>
              Tells(assignments', triple', bare', held')
<1> DEFINE Shows(some) == {e \in Event : (Of(e, assignments) # {}) = some}'
<1>1. \/ /\ status["assignments"] # "loading" /\ bare' = bare /\ held' = held
      \/ /\ status["assignments"] = "loading"
         /\ bare' = bare \cup Shows(FALSE) /\ held' = held \cup Shows(TRUE)
  BY DEF Remember
<1>2. ASSUME NEW e \in Event
      PROVE  IF \E x \in assignments' : triple'[x].event = e
               THEN e \in Shows(TRUE) ELSE e \in Shows(FALSE)
  BY DEF Of
<1>3. Shows(FALSE) \subseteq Event /\ Shows(TRUE) \subseteq Event
  OBVIOUS
<1> HIDE DEF Shows
<1> QED BY <1>1, <1>2, <1>3 DEF Tells, ScreenTyped

LEMMA StillTells ==
  ASSUME NEW rows \in SUBSET (Assignment \cap used), RowsKeep,
         bare \subseteq bare', held \subseteq held',
         Tells(rows, triple, bare, held)
  PROVE  Tells(rows, triple', bare', held') /\ rows \subseteq used'
<1>1. \A x \in rows : triple'[x] = triple[x] /\ x \in used'
  BY DEF RowsKeep
<1> QED BY <1>1 DEF Tells

(* A set of rows that was read from the table a page remembers.            *)
LEMMA TableTells ==
  ASSUME DashboardInv, page = "shown", status["assignments"] = "loading"
  PROVE  /\ assignments \in SUBSET (Assignment \cap used)
         /\ Tells(assignments, triple, bare, held)
  BY DEF DashboardInv, RInv, RegistryTypeOK, TableInv, RowsAreUsed, Remembered

LEMMA AnswerKeeps ==
  ASSUME DashboardInv, NEW q \in Proc, q = pending["assignments"], Serves(q), RowsKeep,
         step'[q] = "replied", result'[q] = 200,
         bare \subseteq bare', held \subseteq held'
  PROVE  answer'[q] \subseteq used' /\ Tells(answer'[q], triple', bare', held')
<1>1. /\ page = "shown" /\ status["assignments"] = "loading"
      /\ req[q].op = "listAssignments" /\ RInv
  BY Lists DEF DashboardInv, Asked
<1>2. CASE answer'[q] = assignments
  BY <1>1, <1>2, TableTells, StillTells
<1>3. CASE step[q] = "replied" /\ result[q] = 200 /\ answer'[q] = answer[q]
  <2>1. answer[q] \in SUBSET (Assignment \cap used)
    BY <1>1 DEF RInv, ProcInv, ListsKnown
  <2>2. Tells(answer[q], triple, bare, held)
    BY <1>3 DEF DashboardInv, AnswerTells
  <2> QED BY <1>3, <2>1, <2>2, StillTells
<1> QED BY <1>1, <1>2, <1>3 DEF Serves

-----------------------------------------------------------------------------
(* The steps.                                                              *)

(* While the page is away nothing is asked and nothing is known.           *)
LEMMA AwayKeeps ==
  ASSUME RInv', page' = "away", status' = Loading, pending' = NoCall,
         data' = NoRows, Remember
  PROVE  DashboardInv'
<1>1. bare' = {} /\ held' = {}
  BY DEF Remember
<1>2. ScreenTyped'
  BY <1>1 DEF ScreenTyped, Loading, NoCall, NoRows
<1>3. ASSUME NEW l \in List PROVE status'[l] = "loading" /\ pending'[l] = NoProc
  BY DEF Loading, NoCall
<1>4. (\A l \in List : Asked(l))'
  BY <1>3, RegistryAssumption DEF Asked
<1>5. AnswerTells' /\ DataTells'
  BY <1>3, Lists, RegistryAssumption DEF AnswerTells, DataTells
<1>6. Remembered'
  BY DEF Remembered
<1> QED BY <1>2, <1>4, <1>5, <1>6 DEF DashboardInv

(* A shown page, once its lists and their requests are accounted for.      *)
LEMMA ShownKeeps ==
  ASSUME DashboardInv, RInv', RowsKeep, Remember, page' = "shown",
         status' \in [List -> {"loading", "error", "success"}],
         pending' \in [List -> Proc \cup {NoProc}],
         data' \in [List -> SUBSET Row],
         status'["assignments"] = "loading" => status["assignments"] = "loading",
         \A l \in List : Asked(l)',
         pending'["assignments"] \in Proc =>
           \/ step'[pending'["assignments"]] # "replied"
           \/ pending'["assignments"] = pending["assignments"] /\ Serves(pending["assignments"]),
         status'["events"] = "success" => data'["events"] \subseteq Event,
         status'["assignments"] = "success" =>
           /\ data'["assignments"] \subseteq Assignment \cap used
           /\ Tells(data'["assignments"], triple, bare, held)
  PROVE  DashboardInv'
<1>1. /\ bare \subseteq bare' /\ held \subseteq held'
      /\ bare' \subseteq Event /\ held' \subseteq Event
      /\ status["assignments"] = "loading" => Tells(assignments', triple', bare', held')
  BY Remembers DEF DashboardInv
<1>2. ScreenTyped'
  BY <1>1 DEF ScreenTyped
<1>3. AnswerTells'
  <2> SUFFICES ASSUME pending'["assignments"] \in Proc,
                      step'[pending'["assignments"]] = "replied",
                      result'[pending'["assignments"]] = 200
               PROVE  /\ answer'[pending'["assignments"]] \subseteq used'
                      /\ Tells(answer'[pending'["assignments"]], triple', bare', held')
    BY DEF AnswerTells
  <2> QED BY <1>1, AnswerKeeps
<1>4. DataTells'
  BY <1>1, StillTells DEF DataTells
<1>5. Remembered'
  BY <1>1 DEF Remembered
<1> QED BY <1>2, <1>3, <1>4, <1>5 DEF DashboardInv

(* The screen stays as it is.                                              *)
LEMMA OthersKeepScreen ==
  ASSUME DashboardInv, RInv', RowsKeep, Remember, UNCHANGED screen,
         \A l \in List : pending[l] \in Proc => Serves(pending[l])
  PROVE  DashboardInv'
<1>1. /\ page' = page /\ status' = status /\ pending' = pending /\ data' = data
      /\ page \in {"away", "shown"} /\ ScreenTyped /\ DataTells
  BY DEF screen, DashboardInv, ScreenTyped
<1>2. ASSUME NEW l \in List PROVE Asked(l)'
  <2>1. Asked(l)
    BY DEF DashboardInv
  <2> QED BY <1>1, <2>1 DEF Asked, Serves
<1>3. CASE page = "shown"
  BY <1>1, <1>2, <1>3, Lists, ShownKeeps DEF ScreenTyped, DataTells
<1>4. CASE page = "away"
  <2>1. bare' = {} /\ held' = {}
    BY <1>1, <1>4 DEF Remember
  <2>2. status = Loading /\ \A l \in List : pending[l] \notin Proc
    BY <1>4 DEF DashboardInv, Remembered, Asked
  <2>3. status["events"] = "loading" /\ status["assignments"] = "loading"
    BY <2>2, Lists DEF Loading
  <2>4. AnswerTells' /\ DataTells'
    BY <1>1, <2>2, <2>3, Lists DEF AnswerTells, DataTells
  <2>5. Remembered' /\ ScreenTyped'
    BY <1>1, <1>4, <2>1, <2>2 DEF Remembered, ScreenTyped
  <2> QED BY <1>2, <2>4, <2>5 DEF DashboardInv
<1> QED BY <1>1, <1>3, <1>4

LEMMA FetchKeeps ==
  ASSUME DashboardInv, NEW l \in List, NEW p \in Proc, Fetch(l, p), Remember
  PROVE  DashboardInv'
<1> DEFINE r == [NoRequest EXCEPT !.op = LoadOp[l]]
<1>1. WellFormed(r) /\ r.op = LoadOp[l]
  <2>1. LoadOp[l] \in {"listPersons", "listEvents", "listAssignments"}
    BY Lists
  <2> QED BY <2>1, Ops DEF WellFormed, NoRequest, Request
<1>2. Start(p, r) /\ RInv
  BY DEF Fetch, DashboardInv
<1> HIDE DEF r
<1>3. /\ RInv' /\ RowsKeep /\ step[p] = "idle"
      /\ \A q \in Proc : q # p => Serves(q)
      /\ req'[p] = r /\ step'[p] = "access"
  BY <1>1, <1>2, StartServes
<1>4. /\ page = "shown" /\ page' = page /\ status' = status /\ data' = data
      /\ status[l] = "loading" /\ pending' = [pending EXCEPT ![l] = p]
      /\ ScreenTyped /\ DataTells
  BY DEF Fetch, DashboardInv
<1>5. pending' \in [List -> Proc \cup {NoProc}] /\ pending'[l] = p
      /\ \A k \in List : k # l => pending'[k] = pending[k]
  BY <1>4 DEF ScreenTyped
<1>6. \A k \in List : Asked(k) /\ pending[k] # p
  BY <1>3 DEF DashboardInv, Asked
<1>7. ASSUME NEW k \in List PROVE Asked(k)'
  BY <1>1, <1>3, <1>4, <1>5, <1>6 DEF Asked, Serves
<1>8. pending'["assignments"] \in Proc =>
        \/ step'[pending'["assignments"]] # "replied"
        \/ pending'["assignments"] = pending["assignments"] /\ Serves(pending["assignments"])
  BY <1>3, <1>5, <1>6, Lists
<1> QED BY <1>3, <1>4, <1>5, <1>7, <1>8, ShownKeeps DEF ScreenTyped, DataTells

(* A list settles: what it waited for is gone, the others wait on.         *)
LEMMA SettleKeeps ==
  ASSUME DashboardInv, NEW l \in List, NEW s \in {"error", "success"}, NEW rows \in SUBSET Row,
         Settle(l, s, rows), page = "shown", RInv', RowsKeep, Remember,
         \A k \in List : k # l /\ pending[k] \in Proc => Serves(pending[k]),
         s = "success" /\ l = "events" => rows \subseteq Event,
         s = "success" /\ l = "assignments" =>
           rows \subseteq Assignment \cap used /\ Tells(rows, triple, bare, held)
  PROVE  DashboardInv'
<1>1. /\ page' = "shown" /\ status' = [status EXCEPT ![l] = s]
      /\ pending' = [pending EXCEPT ![l] = NoProc] /\ data' = [data EXCEPT ![l] = rows]
      /\ ScreenTyped /\ DataTells
  BY DEF Settle, DashboardInv
<1>2. /\ status' \in [List -> {"loading", "error", "success"}]
      /\ pending' \in [List -> Proc \cup {NoProc}] /\ data' \in [List -> SUBSET Row]
      /\ status'[l] = s /\ pending'[l] = NoProc /\ data'[l] = rows
      /\ \A k \in List : k # l => /\ status'[k] = status[k] /\ pending'[k] = pending[k]
                                  /\ data'[k] = data[k]
  BY <1>1 DEF ScreenTyped
<1>3. ASSUME NEW k \in List PROVE Asked(k)'
  <2>1. Asked(k)
    BY DEF DashboardInv
  <2> QED BY <1>1, <1>2, <2>1, RegistryAssumption DEF Asked, Serves
<1>4. status'["assignments"] = "loading" => status["assignments"] = "loading"
  BY <1>2, Lists
<1>5. pending'["assignments"] \in Proc =>
        pending'["assignments"] = pending["assignments"] /\ Serves(pending["assignments"])
  BY <1>2, Lists, RegistryAssumption
<1>6. /\ status'["events"] = "success" => data'["events"] \subseteq Event
      /\ status'["assignments"] = "success" =>
           /\ data'["assignments"] \subseteq Assignment \cap used
           /\ Tells(data'["assignments"], triple, bare, held)
  BY <1>1, <1>2, Lists DEF DataTells
<1> QED BY <1>1, <1>2, <1>3, <1>4, <1>5, <1>6, ShownKeeps

LEMMA ArrivedKeeps ==
  ASSUME DashboardInv, NEW l \in List, NEW p \in Proc, Loaded(l, p) \/ Failed(l, p), Remember
  PROVE  DashboardInv'
<1>1. /\ pending[l] = p /\ step[p] = "replied" /\ Release(p) /\ RInv
  BY DEF Loaded, Failed, Arrived, DashboardInv
<1>2. /\ page = "shown" /\ req[p].op = LoadOp[l]
      /\ \A k \in List \ {l} : pending[k] # p
  BY <1>1, Lists DEF DashboardInv, Asked
<1>3. /\ RInv' /\ RowsKeep /\ \A q \in Proc : q # p => Serves(q)
  BY <1>1, ReleaseServes
<1>4. CASE Failed(l, p)
  BY <1>2, <1>3, <1>4, SettleKeeps DEF Failed
<1>5. CASE Loaded(l, p)
  <2>1. result[p] = 200 /\ Settle(l, "success", answer[p])
    BY <1>5 DEF Loaded
  <2>2. answer[p] \in SUBSET Row
    BY <1>1 DEF RInv, RegistryTypeOK
  <2>3. l = "events" => answer[p] \subseteq Event
    BY <1>1, <1>2, Lists DEF RInv, ProcInv, ListsKnown
  <2>4. l = "assignments" =>
          /\ answer[p] \subseteq Assignment \cap used
          /\ Tells(answer[p], triple, bare, held)
    BY <1>1, <1>2, <2>1, Lists DEF DashboardInv, AnswerTells, RInv, ProcInv, ListsKnown
  <2> QED BY <1>2, <1>3, <2>1, <2>2, <2>3, <2>4, SettleKeeps
<1> QED BY <1>4, <1>5

LEMMA LostKeeps ==
  ASSUME DashboardInv, NEW l \in List, Lost(l), Remember
  PROVE  DashboardInv'
<1>1. /\ page = "shown" /\ Settle(l, "error", {})
      /\ UNCHANGED <<tables, account, requests, history>>
  BY DEF Lost, registryVars
<1>2. RInv' /\ RowsKeep /\ \A q \in Proc : Serves(q)
  BY <1>1, SameRegistry DEF DashboardInv
<1> QED BY <1>1, <1>2, SettleKeeps

LEMMA EnterKeeps ==
  ASSUME DashboardInv, Enter, Remember
  PROVE  DashboardInv'
<1>1. /\ page = "away" /\ page' = "shown"
      /\ UNCHANGED <<tables, account, requests, history>>
      /\ status' = status /\ pending' = pending /\ data' = data
  BY DEF Enter, registryVars
<1>2. RInv' /\ RowsKeep
  BY <1>1, SameRegistry DEF DashboardInv
<1>3. status = Loading /\ \A l \in List : pending[l] \notin Proc
  BY <1>1 DEF DashboardInv, Remembered, Asked
<1>4. status["events"] = "loading" /\ status["assignments"] = "loading"
  BY <1>3, Lists DEF Loading
<1>5. ASSUME NEW l \in List PROVE Asked(l)'
  BY <1>1, <1>3 DEF Asked
<1> QED BY <1>1, <1>2, <1>3, <1>4, <1>5, Lists, ShownKeeps DEF DashboardInv, ScreenTyped

-----------------------------------------------------------------------------
(* The specification. *)

LEMMA DashboardStarts == DashboardInit => DashboardInv
<1> SUFFICES ASSUME DashboardInit PROVE DashboardInv
  OBVIOUS
<1>1. RInv /\ ScreenTyped
  BY RegistryStarts DEF DashboardInit, ScreenTyped, Loading, NoCall, NoRows
<1>2. \A l \in List : status[l] = "loading" /\ pending[l] \notin Proc
  BY RegistryAssumption DEF DashboardInit, Loading, NoCall
<1>3. AnswerTells /\ DataTells /\ Remembered
  BY <1>2, Lists DEF AnswerTells, DataTells, Remembered, DashboardInit
<1> QED BY <1>1, <1>2, <1>3 DEF DashboardInv, Asked

LEMMA DashboardNextKeeps == DashboardInv /\ [DashboardNext]_dashboardVars => DashboardInv'
<1> SUFFICES ASSUME DashboardInv, [DashboardNext]_dashboardVars PROVE DashboardInv'
  OBVIOUS
<1>0. RInv
  BY DEF DashboardInv
<1>1. CASE UNCHANGED dashboardVars
  <2>1. /\ UNCHANGED <<tables, account, requests, history>>
        /\ page' = page /\ status' = status /\ pending' = pending /\ data' = data
        /\ bare' = bare /\ held' = held
    BY <1>1 DEF dashboardVars, registryVars, screen, seen
  <2>2. RInv' /\ RowsKeep
    BY <1>0, <2>1, SameRegistry
  <2>3. /\ UNCHANGED <<step, req, result, answer, triple, used, assignments>>
    BY <2>1 DEF tables, requests
  <2> QED BY <2>1, <2>2, <2>3 DEF DashboardInv, ScreenTyped, Asked, AnswerTells, DataTells,
             Remembered, Tells
<1>2. CASE Leave /\ Remember
  <2>1. RInv'
    BY <1>0, <1>2, SameRegistry DEF Leave, registryVars
  <2> QED BY <1>2, <2>1, AwayKeeps DEF Leave
<1>3. CASE Operate /\ UNCHANGED screen /\ Remember
  BY <1>0, <1>3, OperateKeeps, OperateServes, OthersKeepScreen
<1>4. ASSUME NEW p \in Proc, Direct(p), UNCHANGED screen, Remember PROVE DashboardInv'
  <2>1. PICK r : WellFormed(r) /\ Start(p, r)
    BY <1>4, DirectIsWellFormed
  <2>2. RInv' /\ RowsKeep /\ step[p] = "idle" /\ \A q \in Proc : q # p => Serves(q)
    BY <1>0, <2>1, StartServes
  <2>3. \A l \in List : pending[l] # p
    BY <2>2 DEF DashboardInv, Asked
  <2> QED BY <1>4, <2>2, <2>3, OthersKeepScreen
<1>5. ASSUME NEW p \in Proc, Serve(p), UNCHANGED screen, Remember PROVE DashboardInv'
  <2>1. /\ RInv' /\ RowsKeep
        /\ \A q \in Proc : req[q].op # "createAssignment" => Serves(q)
    BY <1>0, <1>5, ServeKeeps, ServeServes
  <2>2. \A l \in List : pending[l] \in Proc => req[pending[l]].op # "createAssignment"
    BY Lists DEF DashboardInv, Asked
  <2> QED BY <1>5, <2>1, <2>2, OthersKeepScreen
<1>6. ASSUME NEW p \in Proc, Unread(p), UNCHANGED screen, Remember PROVE DashboardInv'
  <2>1. RInv' /\ RowsKeep /\ \A q \in Proc : q # p => Serves(q)
    BY <1>0, <1>6, ReleaseServes DEF Unread
  <2> QED BY <1>6, <2>1, OthersKeepScreen DEF Unread
<1> QED BY <1>1, <1>2, <1>3, <1>4, <1>5, <1>6, EnterKeeps, LostKeeps, FetchKeeps,
           ArrivedKeeps DEF DashboardNext

(* What the invariant means for the reader of the page.                    *)
LEMMA DashboardGuarantees ==
  ASSUME DashboardInv
  PROVE  DashboardTypeOK /\ ListedIsTrue
<1>1. DashboardTypeOK
  BY DEF DashboardInv, RInv, ScreenTyped, DashboardTypeOK
<1>2. ListedIsTrue
  <2> SUFFICES ASSUME Correlated
               PROVE  EventsWith(FALSE) \subseteq bare /\ EventsWith(TRUE) \subseteq held
    BY DEF ListedIsTrue, Unassigned, Assigned
  <2>1. data["events"] \subseteq Event /\ Tells(data["assignments"], triple, bare, held)
    BY DEF DashboardInv, DataTells, Correlated
  <2> QED BY <2>1 DEF Tells, EventsWith, Of
<1> QED BY <1>1, <1>2

=============================================================================
