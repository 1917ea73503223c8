------------------------------ MODULE Readiness ------------------------------
(***************************************************************************)
(* The API process as its monitors see it: requests that pass through      *)
(* RequestLoggingMiddleware and its metrics (api/middleware.py,            *)
(* core/metrics.py), and the health endpoints (api/health.py), whose three *)
(* checks run side by side, each against a dependency that comes and goes. *)
(* The database is pinged from threads of the event loop's executor.       *)
(***************************************************************************)
EXTENDS Redis, Naturals, FiniteSets

CONSTANTS Req,      \* requests in progress at a time
          Threads,  \* threads of the executor
          MaxCalls  \* bound: metered requests of one process

ASSUME ReadinessAssumption ==
  /\ IsFiniteSet(Req)
  /\ Threads \in Nat /\ Threads >= 1 /\ MaxCalls \in Nat

VARIABLES
  db,          \* "up", "refusing" connections or "wedged": nothing answers
  kind,        \* kind[r]: what r asks for, "none" when there is no request r
  status_code, \* the middleware's variable of that name
  told,        \* status of the response r has sent, 0: none yet
  check,       \* check[r]: the three results a readiness request gathers
  stuck,       \* threads whose ping nobody waits for any more
  gauge,       \* http_requests_in_progress
  counted,     \* http_requests_total, by status class
  served,      \* history: metered requests, by the class the client was told
  saw,         \* history: dependencies that were up while r was checking
  missed       \* history: whether r ever lacked a dependency or a thread

apiVars == <<db, kind, status_code, told, check, stuck, gauge, counted,
             served, saw, missed>>

Kind    == {"ready", "live", "call"}
Class   == {"2xx", "4xx", "5xx"}
Zero    == [c \in Class |-> 0]
NoCheck == [database |-> "none", redis |-> "none", worker |-> "none"]
Opened  == [database |-> "queued", redis |-> "running", worker |-> "running"]

InProgress == {r \in Req : kind[r] # "none"}
Checking   == {r \in Req : kind[r] = "ready"}
Pinging    == {r \in Req : check[r].database = "running"}
Free       == Threads - stuck - Cardinality(Pinging)

ReadinessTypeOK ==
  /\ db \in {"up", "refusing", "wedged"}
  /\ kind \in [Req -> Kind \cup {"none"}]
  /\ status_code \in [Req -> {200, 422, 500, 503}]
  /\ told \in [Req -> {0, 200, 422, 503}]
  /\ check \in [Req -> [database : {"none", "queued", "running", "ok", "unavailable"},
                        redis : {"none", "running", "ok", "unavailable"},
                        worker : {"none", "running", "ok", "no_recent_heartbeat"}]]
  /\ stuck \in Nat /\ Free \in 0..Threads
  /\ gauge \in Nat
  /\ counted \in [Class -> Nat] /\ served \in [Class -> Nat]
  /\ saw \in [Req -> SUBSET {"database", "redis"}]
  /\ missed \in [Req -> BOOLEAN]

ReadinessInit ==
  /\ db = "up"
  /\ kind = [r \in Req |-> "none"]
  /\ status_code = [r \in Req |-> 500] /\ told = [r \in Req |-> 0]
  /\ check = [r \in Req |-> NoCheck]
  /\ stuck = 0 /\ gauge = 0 /\ counted = Zero /\ served = Zero
  /\ saw = [r \in Req |-> {}] /\ missed = [r \in Req |-> FALSE]

(* What a check that looks now finds.                                      *)
Up      == (IF db = "up" THEN {"database"} ELSE {})
             \cup (IF redis = "up" THEN {"redis"} ELSE {})
Missing == {"database", "redis"} \ Up

-----------------------------------------------------------------------------
(* The middleware                                                          *)

_status_class(status) ==
  CASE status < 400 -> "2xx" [] status \in 400..499 -> "4xx" [] status >= 500 -> "5xx"

(* Only what is not a health or metrics path is recorded.                  *)
Bump(count, r, status) ==
  IF kind[r] = "call" THEN [count EXCEPT ![_status_class(status)] = @ + 1] ELSE count

(* Mutant: status_code starts as a success.                                *)
EnterHopeful(r, k) ==
  /\ kind' = [kind EXCEPT ![r] = k]
  /\ status_code' = [status_code EXCEPT ![r] = 200]
  /\ gauge' = gauge + 1

(* __call__ up to self.app: every request enters the gauge, and fails      *)
(* until a response says otherwise.                                        *)
Enter(r, k) ==
  /\ kind' = [kind EXCEPT ![r] = k]
  /\ status_code' = [status_code EXCEPT ![r] = 500]
  /\ gauge' = gauge + 1

Arrive(r, k) ==
  /\ kind[r] = "none"
  /\ k = "call" =>
       served["2xx"] + served["4xx"] + served["5xx"]
         + Cardinality({q \in Req : kind[q] = "call"}) < MaxCalls
  /\ Enter(r, k)
  /\ check' = [check EXCEPT ![r] = IF k = "ready" THEN Opened ELSE NoCheck]
  /\ saw' = [saw EXCEPT ![r] = IF k = "ready" THEN Up ELSE {}]
  /\ missed' = [missed EXCEPT ![r] = k = "ready" /\ Missing # {}]
  /\ UNCHANGED <<redis, db, told, stuck, counted, served>>

(* send_with_request_id sees http.response.start.                          *)
Send(r, status) ==
  /\ told[r] = 0
  /\ told' = [told EXCEPT ![r] = status]
  /\ status_code' = [status_code EXCEPT ![r] = status]
  /\ check' = [check EXCEPT ![r] = NoCheck]
  /\ UNCHANGED <<redis, db, kind, stuck, gauge, counted, served, saw, missed>>

Leave(r) == gauge' = gauge - 1

(* The finally block.  A client that got no response from the application  *)
(* is told 500 by the server error handler outside.                        *)
Exit(r) ==
  /\ Leave(r)
  /\ counted' = Bump(counted, r, status_code[r])
  /\ served' = Bump(served, r, IF told[r] = 0 THEN 500 ELSE told[r])
  /\ kind' = [kind EXCEPT ![r] = "none"]
  /\ status_code' = [status_code EXCEPT ![r] = 500]
  /\ told' = [told EXCEPT ![r] = 0]
  /\ check' = [check EXCEPT ![r] = NoCheck]
  /\ saw' = [saw EXCEPT ![r] = {}] /\ missed' = [missed EXCEPT ![r] = FALSE]
  /\ UNCHANGED <<redis, db, stuck>>

Finish(r) == told[r] # 0 /\ Exit(r)

(* The other handlers answer or raise; the health handlers never raise.    *)
Handle(r) ==
  /\ kind[r] = "call" /\ told[r] = 0
  /\ Send(r, 200) \/ Send(r, 422) \/ Exit(r)

liveness(r) == kind[r] = "live" /\ Send(r, 200)

-----------------------------------------------------------------------------
(* readiness: three checks, each on its own, gathered into one answer      *)

Finds(r, name, from, result) ==
  /\ check[r][name] = from
  /\ check' = [check EXCEPT ![r][name] = result]
  /\ UNCHANGED <<redis, db, kind, status_code, told, gauge, counted, served, saw>>

(* Mutant: a thread per ping.                                              *)
PingStartsAnyway(r) ==
  /\ Finds(r, "database", "queued", "running")
  /\ UNCHANGED <<stuck, missed>>

(* _check_database: the ping gets a thread, if one is free.                *)
PingStarts(r) ==
  /\ Free > 0
  /\ Finds(r, "database", "queued", "running")
  /\ UNCHANGED <<stuck, missed>>

PingEnds(r) ==
  /\ db # "wedged"
  /\ Finds(r, "database", "running", IF db = "up" THEN "ok" ELSE "unavailable")
  /\ UNCHANGED <<stuck, missed>>

(* Mutant: the timeout counts as an answer.                                *)
PingTimesOutOK(r) ==
  /\ db = "wedged"
  /\ Finds(r, "database", "running", "ok")
  /\ stuck' = stuck + 1
  /\ UNCHANGED missed

(* The timeout ends the wait, not the thread.                              *)
PingTimesOut(r) ==
  /\ db = "wedged"
  /\ Finds(r, "database", "running", "unavailable")
  /\ stuck' = stuck + 1
  /\ UNCHANGED missed

(* A ping that found no thread in time is cancelled.  Pings that a healthy *)
(* database answers do not hold a thread for that long.                    *)
PingNeverStarts(r) ==
  /\ Free = 0 /\ (db = "wedged" \/ stuck > 0)
  /\ Finds(r, "database", "queued", "unavailable")
  /\ missed' = [missed EXCEPT ![r] = TRUE]
  /\ UNCHANGED stuck

(* Mutant: an abandoned ping keeps its thread for good.                    *)
StuckForever == FALSE /\ UNCHANGED <<redis, apiVars>>

(* An abandoned ping ends when the database answers or refuses.            *)
StuckPingEnds ==
  /\ stuck > 0 /\ db # "wedged"
  /\ stuck' = stuck - 1
  /\ UNCHANGED <<redis, db, kind, status_code, told, check, gauge, counted,
                 served, saw, missed>>

_check_redis(r) ==
  /\ Finds(r, "redis", "running", IF redis = "up" THEN "ok" ELSE "unavailable")
  /\ UNCHANGED <<stuck, missed>>

(* The key is there or not: module Heartbeat says what that means.         *)
_check_worker_heartbeat(r) ==
  /\ \E word \in {"ok", "no_recent_heartbeat"} :
       /\ redis = "down" => word = "no_recent_heartbeat"
       /\ Finds(r, "worker", "running", word)
  /\ UNCHANGED <<stuck, missed>>

Ready(r) == check[r].database = "ok" /\ check[r].redis = "ok"

readiness(r) ==
  /\ kind[r] = "ready"
  /\ check[r].database \in {"ok", "unavailable"}
  /\ check[r].redis # "running" /\ check[r].worker # "running"
  /\ Send(r, IF Ready(r) THEN 200 ELSE 503)

-----------------------------------------------------------------------------
(* The dependencies, and the end of the process                            *)

Asks(r) == r \in Checking /\ told[r] = 0
Seen ==
  /\ saw' = [r \in Req |-> IF Asks(r) THEN saw[r] \cup Up' ELSE saw[r]]
  /\ missed' = [r \in Req |-> missed[r] \/ (Asks(r) /\ Missing' # {})]

DatabaseChanges ==
  /\ db' \in {"up", "refusing", "wedged"} \ {db}
  /\ UNCHANGED <<redis, kind, status_code, told, check, stuck, gauge, counted, served>>
  /\ Seen

(* Redis comes or goes while requests are in progress.                     *)
RedisSeen ==
  /\ UNCHANGED <<db, kind, status_code, told, check, stuck, gauge, counted, served>>
  /\ Seen

(* A restart: metrics and threads belong to the process.                   *)
Restart ==
  /\ kind' = [r \in Req |-> "none"]
  /\ status_code' = [r \in Req |-> 500] /\ told' = [r \in Req |-> 0]
  /\ check' = [r \in Req |-> NoCheck]
  /\ stuck' = 0 /\ gauge' = 0 /\ counted' = Zero /\ served' = Zero
  /\ saw' = [r \in Req |-> {}] /\ missed' = [r \in Req |-> FALSE]
  /\ UNCHANGED <<redis, db>>

Serve(r) ==
  \/ Finish(r) \/ Handle(r) \/ liveness(r) \/ readiness(r)
  \/ PingStarts(r) \/ PingEnds(r) \/ PingTimesOut(r) \/ PingNeverStarts(r)
  \/ _check_redis(r) \/ _check_worker_heartbeat(r)

ReadinessNext ==
  \/ \E r \in Req : Serve(r) \/ \E k \in Kind : Arrive(r, k)
  \/ StuckPingEnds \/ DatabaseChanges \/ Restart

(* Every await of a handler is bounded by a timeout or answered.           *)
ReadinessFairness ==
  /\ \A r \in Req : WF_<<redis, apiVars>>(Serve(r))
  /\ WF_<<redis, apiVars>>(StuckPingEnds)

-----------------------------------------------------------------------------
(* Properties *)

(* http_requests_in_progress is the number of requests inside, whichever   *)
(* way each of them ends.                                                  *)
GaugeIsInFlight == gauge = Cardinality(InProgress)

(* http_requests_total tells what the clients were told, also those whose  *)
(* handler raised and who got their response from outside the middleware.  *)
CountedAsTold == counted = served

(* Both: the metrics tell the truth, however requests end.                 *)
MetricsTrue == GaugeIsInFlight /\ CountedAsTold

(* 200 from /api/health/ready: database and Redis have each answered while *)
(* the request was in progress.                                            *)
ReadyHadBoth ==
  \A r \in Checking : told[r] = 200 => saw[r] = {"database", "redis"}

(* 503 has a cause: one of the two was missing at some time during the     *)
(* request, or every thread was taken by pings of earlier requests.  The   *)
(* worker is no cause.                                                     *)
NotReadyExplained ==
  \A r \in Checking : told[r] = 503 => missed[r]

(* Both answers of the readiness check have their reason.                  *)
ReadinessExplained == ReadyHadBoth /\ NotReadyExplained

(* However many pings a wedged database has swallowed, once it and Redis   *)
(* are back for good the API is ready for good.                            *)
ReadinessRecovers ==
  <>[](db = "up" /\ redis = "up") =>
    <>[](\A r \in Checking : told[r] # 503)
=============================================================================
