------------------------------ MODULE OpsProofs ------------------------------
(* Proofs about Ops for any number of coroutines, workers and requests:    *)
(* the pool, the heartbeat, the metrics and the readiness check; and, for  *)
(* any commits of main, any contents of .env.prod and any number of runs,  *)
(* the schema and the deployment script.                                   *)
EXTENDS Ops, FiniteSetTheorems, TLAPS

-----------------------------------------------------------------------------
(* The heartbeat.  A key is at most TTL old since a worker set it, and a   *)
(* worker that is not due yet has a key that outlives its pause, unless it *)
(* was wiped since.                                                        *)
KeyOutlivesPause ==
  \A w \in running :
    due[w] > 0 => \/ key >= due[w] + (TTL - Interval)
                  \/ wiped <= Interval - due[w]

HeartbeatInv ==
  /\ HeartbeatTypeOK
  /\ running # {} => idle = 0
  /\ KeyMeansRecentWorker /\ KeyOutlivesPause

LEMMA HeartbeatStep ==
  ASSUME HeartbeatInv, HeartbeatNext \/ RedisFails
  PROVE  HeartbeatInv'
<1> USE HeartbeatAssumption
        DEF HeartbeatInv, HeartbeatTypeOK, KeyMeansRecentWorker, KeyOutlivesPause,
            KeyExists
<1>1. ASSUME NEW w \in Worker, StartWorker(w) PROVE HeartbeatInv'
  BY <1>1 DEF StartWorker
<1>2. ASSUME NEW w \in Worker, Beat(w) PROVE HeartbeatInv'
  BY <1>2 DEF Beat
<1>3. ASSUME NEW w \in Worker, CrashWorker(w) \/ StopWorker(w) PROVE HeartbeatInv'
  BY <1>3 DEF CrashWorker, StopWorker, Ends
<1>4. CASE Tick
  BY <1>4 DEF Tick, Less, More
<1>5. CASE RedisFails
  BY <1>5 DEF RedisFails, KeyMayBeLost
<1> QED BY <1>1, <1>2, <1>3, <1>4, <1>5 DEF HeartbeatNext

(* What the other components and Redis do to the heartbeat.                *)
LEMMA HeartbeatMovesAlone ==
  [Next]_vars => HeartbeatNext \/ RedisFails \/ UNCHANGED heartbeatVars
BY DEF Next, PoolMoves, HeartbeatMoves, ApiMoves, DeployMoves, SchemaMoves,
       RedisReturns, vars

(* So the invariant holds in every reachable state.                        *)
LEMMA HeartbeatAlways == Spec => []HeartbeatInv
<1>1. Init => HeartbeatInv
  BY HeartbeatAssumption
     DEF Init, HeartbeatInit, HeartbeatInv, HeartbeatTypeOK, KeyMeansRecentWorker,
         KeyOutlivesPause, KeyExists
<1>2. HeartbeatInv /\ [Next]_vars => HeartbeatInv'
  <2>1. CASE HeartbeatNext \/ RedisFails
    BY <2>1, HeartbeatStep
  <2>2. ASSUME HeartbeatInv, UNCHANGED heartbeatVars PROVE HeartbeatInv'
    BY <2>2 DEF heartbeatVars, HeartbeatInv, HeartbeatTypeOK, KeyMeansRecentWorker,
                KeyOutlivesPause, KeyExists
  <2> QED BY <2>1, <2>2, HeartbeatMovesAlone
<1> QED BY <1>1, <1>2, PTL DEF Spec

(* The key means that a worker ran within its time to live, and its        *)
(* absence that none runs, none has beaten yet or it was wiped, for any    *)
(* number of workers, any interval and any longer time to live.            *)
THEOREM HeartbeatMeansWhatItSays == Spec => []HeartbeatExplained
<1>1. HeartbeatInv => HeartbeatExplained
  BY HeartbeatAssumption
     DEF HeartbeatInv, HeartbeatTypeOK, HeartbeatExplained, KeyMeansRecentWorker,
         MissingKeyExplained, KeyOutlivesPause, KeyExists
<1> QED BY <1>1, HeartbeatAlways, PTL

-----------------------------------------------------------------------------
(* The pool.                                                               *)

Closing == {t \in Task : at[t] \in {"closing", "closed"}}
Clean   == lost.races + lost.failures = 0

PoolInv ==
  /\ PoolTypeOK
  /\ cache <= made
  /\ \A t \in Task :
       /\ using[t] <= made
       /\ at[t] \in {"enqueueing", "closing", "closed"} => using[t] \in Pool
  /\ NoPoison

(* Each pool that was made is in the cache or paid for by a loss, and each *)
(* close() that has not ended has paid already.                            *)
Paid ==
  (IF cache = NoPool THEN made ELSE made - 1) + Cardinality(Closing) <= Losses

(* As long as nothing is lost, only the cached pool is in use.             *)
OnlyTheCached ==
  Losses = 0 =>
    /\ Closing = {} /\ open \subseteq {cache} \cap Pool
    /\ \A t \in Task : at[t] = "enqueueing" => using[t] = cache

(* A close() that has the service for itself, as the first loss.           *)
CloserAlone ==
  (closed = "closing" /\ Clean /\ lost.closes = 1) =>
    /\ open \subseteq {cache}
    /\ \E t \in Task :
         /\ at[t] \in {"closing", "closed"} /\ using[t] = cache
         /\ at[t] = "closed" => open = {}
         /\ \A u \in Task \ {t} : at[u] = "idle"

ClosedIsQuiet ==
  (closed = "yes" /\ Clean /\ lost.closes = 1) =>
    cache = NoPool /\ open = {} /\ \A t \in Task : at[t] = "idle"

PoolActs == \E t \in Task : PoolStep(t)

LEMMA PoolMovesAlone ==
  [Next]_vars => PoolActs \/ PoolsCut \/ UNCHANGED poolVars
BY DEF Next, PoolMoves, HeartbeatMoves, ApiMoves, DeployMoves, SchemaMoves,
       RedisFails, RedisReturns, vars, PoolActs

LEMMA PoolStepInv ==
  ASSUME PoolInv, PoolActs \/ PoolsCut PROVE PoolInv'
<1> USE PoolAssumption
        DEF PoolInv, PoolTypeOK, NoPoison, Pool, NoPool, Moves
<1>1. ASSUME NEW t \in Task, BeginEnqueue(t) PROVE PoolInv'
  BY <1>1 DEF BeginEnqueue
<1>2. ASSUME NEW t \in Task, Connected(t) PROVE PoolInv'
  BY <1>2 DEF Connected
<1>3. ASSUME NEW t \in Task, ConnectFails(t) \/ Cancel(t) PROVE PoolInv'
  <2>1. Moves(t, "idle", NoPool) /\ UNCHANGED <<cache, open, made, failedOn, lost, closed>>
    BY <1>3 DEF ConnectFails, Cancel
  <2> QED BY <2>1
<1>4. ASSUME NEW t \in Task, EnqueueEnds(t) PROVE PoolInv'
  <2>1. using[t] \in 1..made
    BY <1>4 DEF EnqueueEnds
  <2>2. open' \subseteq 1..made'
    BY <1>4, <2>1 DEF EnqueueEnds
  <2> QED BY <1>4, <2>2 DEF EnqueueEnds
<1>5. ASSUME NEW t \in Task, EnqueueFails(t) PROVE PoolInv'
  BY <1>5 DEF EnqueueFails
<1>6. ASSUME NEW t \in Task, BeginClose(t) PROVE PoolInv'
  BY <1>6 DEF BeginClose
<1>7. ASSUME NEW t \in Task, Aclose(t) PROVE PoolInv'
  BY <1>7 DEF Aclose
<1>8. ASSUME NEW t \in Task, EndClose(t) PROVE PoolInv'
  BY <1>8 DEF EndClose
<1>9. CASE PoolsCut
  BY <1>9 DEF PoolsCut, InFlight
<1> QED
  BY <1>1, <1>2, <1>3, <1>4, <1>5, <1>6, <1>7, <1>8, <1>9 DEF PoolStep, PoolActs

(* So the invariant holds in every reachable state.                        *)
LEMMA PoolAlways == Spec => []PoolInv
<1>1. Init => PoolInv
  BY PoolAssumption
     DEF Init, PoolInit, PoolInv, PoolTypeOK, NoPoison, Pool, NoPool
<1>2. PoolInv /\ [Next]_vars => PoolInv'
  <2>1. ASSUME PoolInv, UNCHANGED poolVars PROVE PoolInv'
    BY <2>1 DEF poolVars, PoolInv, PoolTypeOK, NoPoison, Pool, NoPool
  <2> QED BY <2>1, PoolStepInv, PoolMovesAlone
<1> QED BY <1>1, <1>2, PTL DEF Spec

(* A pool an enqueue failed on is never cached again, for any number of    *)
(* coroutines and pools.                                                   *)
THEOREM PoolsAreNotPoisoned == Spec => []NoPoison
<1>1. PoolInv => NoPoison
  BY DEF PoolInv
<1> QED BY <1>1, PoolAlways, PTL

LEMMA ClosersCount ==
  ASSUME PoolInv
  PROVE  /\ IsFiniteSet(Closing) /\ Cardinality(Closing) \in Nat
         /\ \A t \in Task :
              /\ Cardinality(Closing \cup {t}) =
                   IF t \in Closing THEN Cardinality(Closing) ELSE Cardinality(Closing) + 1
              /\ Cardinality(Closing \ {t}) =
                   IF t \in Closing THEN Cardinality(Closing) - 1 ELSE Cardinality(Closing)
<1>1. IsFiniteSet(Closing)
  BY PoolAssumption, FS_Subset DEF Closing
<1> QED BY <1>1, FS_CardinalityType, FS_AddElement, FS_RemoveElement

LEMMA PaidStep ==
  ASSUME PoolInv, Paid, PoolActs \/ PoolsCut PROVE Paid'
<1> USE DEF PoolInv, PoolTypeOK, Pool, NoPool, Losses
<1> DEFINE n == Cardinality(Closing)
<1>0. n \in Nat
  BY ClosersCount
<1>1. ASSUME NEW t \in Task, at[t] \notin {"closing", "closed"},
             at' = [at EXCEPT ![t] = "idle"]
                \/ at' = [at EXCEPT ![t] = "enqueueing"]
                \/ at' = [at EXCEPT ![t] = "connecting"]
      PROVE  Closing' = Closing
  BY <1>1 DEF Closing
<1>2. ASSUME NEW t \in Task, BeginEnqueue(t) \/ ConnectFails(t) \/ EnqueueEnds(t) \/ Cancel(t)
      PROVE  Paid'
  <2>1. /\ UNCHANGED <<cache, made, lost>> /\ at[t] \notin {"closing", "closed"}
        /\ at' = [at EXCEPT ![t] = "idle"]
             \/ at' = [at EXCEPT ![t] = "enqueueing"]
             \/ at' = [at EXCEPT ![t] = "connecting"]
    BY <1>2 DEF BeginEnqueue, ConnectFails, EnqueueEnds, Cancel, Moves
  <2> QED BY <1>1, <2>1 DEF Paid
<1>3. ASSUME NEW t \in Task, Connected(t) PROVE Paid'
  <2>1. Closing' = Closing
    BY <1>1, <1>3 DEF Connected, Moves
  <2> QED BY <1>0, <1>3, <2>1 DEF Connected, Paid
<1>4. ASSUME NEW t \in Task, EnqueueFails(t) PROVE Paid'
  <2>1. Closing' = Closing
    BY <1>1, <1>4 DEF EnqueueFails, Moves
  <2> QED BY <1>0, <1>4, <2>1 DEF EnqueueFails, Paid
<1>5. ASSUME NEW t \in Task, BeginClose(t) PROVE Paid'
  <2>1. Closing' = Closing \cup {t} /\ t \notin Closing
    BY <1>5 DEF BeginClose, Moves, Closing
  <2>2. Cardinality(Closing') = n + 1
    BY <2>1, ClosersCount
  <2> QED BY <1>0, <1>5, <2>2 DEF BeginClose, Paid
<1>6. ASSUME NEW t \in Task, Aclose(t) PROVE Paid'
  <2>1. Closing' = Closing
    BY <1>6 DEF Aclose, Closing
  <2> QED BY <1>6, <2>1 DEF Aclose, Paid
<1>7. ASSUME NEW t \in Task, EndClose(t) PROVE Paid'
  <2>1. Closing' = Closing \ {t} /\ t \in Closing
    BY <1>7 DEF EndClose, Moves, Closing
  <2>2. Cardinality(Closing') = n - 1
    BY <2>1, ClosersCount
  <2> QED BY <1>0, <1>7, <2>2 DEF EndClose, Paid
<1>8. CASE PoolsCut
  <2>1. Closing' = Closing
    BY <1>8 DEF PoolsCut, Closing
  <2> QED BY <1>8, <2>1 DEF PoolsCut, Paid
<1> QED
  BY <1>2, <1>3, <1>4, <1>5, <1>6, <1>7, <1>8 DEF PoolStep, PoolActs

(* Every pool that left the cache left it by a lost race, a failed enqueue *)
(* or a close(), one for each.                                             *)
THEOREM DiscardsAreExplained == Spec => []DiscardsExplained
<1>1. Init => PoolInv /\ Paid
  <2> SUFFICES ASSUME Init PROVE PoolInv /\ Paid
    OBVIOUS
  <2>1. PoolInv
    BY PoolAssumption
       DEF Init, PoolInit, PoolInv, PoolTypeOK, NoPoison, Pool, NoPool
  <2>2. Closing = {}
    BY DEF Init, PoolInit, Closing
  <2>3. Cardinality(Closing) = 0
    BY <2>2, FS_EmptySet
  <2> QED BY <2>1, <2>3 DEF Init, PoolInit, Paid, Losses, NoPool
<1>2. (PoolInv /\ Paid) /\ [Next]_vars => (PoolInv /\ Paid)'
  <2>1. ASSUME PoolInv, Paid, UNCHANGED poolVars PROVE (PoolInv /\ Paid)'
    <3>1. Closing' = Closing
      BY <2>1 DEF poolVars, Closing
    <3> QED
      BY <2>1, <3>1 DEF poolVars, PoolInv, PoolTypeOK, NoPoison, Pool, NoPool, Paid,
                        Losses
  <2> QED BY <2>1, PoolStepInv, PaidStep, PoolMovesAlone
<1>3. PoolInv /\ Paid => DiscardsExplained
  <2> SUFFICES ASSUME PoolInv, Paid PROVE DiscardsExplained
    OBVIOUS
  <2> USE DEF PoolInv, PoolTypeOK, Pool, NoPool
  <2>1. Cardinality(Closing) \in Nat
    BY ClosersCount
  <2>2. IsFiniteSet(1..made) /\ Cardinality(1..made) = made
    BY FS_Interval
  <2>3. Cardinality((1..made) \ {cache}) = IF cache = NoPool THEN made ELSE made - 1
    <3>1. cache \in 1..made <=> cache # NoPool
      BY PoolAssumption
    <3>2. Cardinality((1..made) \ {cache}) =
            IF cache \in 1..made THEN Cardinality(1..made) - 1 ELSE Cardinality(1..made)
      <4> DEFINE S == 1..made
      <4>1. IsFiniteSet(S)
        BY <2>2
      <4> HIDE DEF S
      <4>2. Cardinality(S \ {cache}) = IF cache \in S THEN Cardinality(S) - 1 ELSE Cardinality(S)
        BY <4>1, FS_RemoveElement
      <4> QED BY <4>2 DEF S
    <3> QED BY <2>2, <3>1, <3>2
  <2>4. Losses \in Nat
    BY DEF Losses
  <2> QED BY <2>1, <2>3, <2>4 DEF Paid, DiscardsExplained
<1> QED BY <1>1, <1>2, <1>3, PTL DEF Spec

LEMMA QuietStep ==
  ASSUME PoolInv, OnlyTheCached, CloserAlone, ClosedIsQuiet, PoolActs \/ PoolsCut
  PROVE  OnlyTheCached' /\ CloserAlone' /\ ClosedIsQuiet'
<1> USE PoolAssumption
        DEF PoolInv, PoolTypeOK, Pool, NoPool, Losses, Clean, Closing,
            OnlyTheCached, CloserAlone, ClosedIsQuiet
<1>1. ASSUME NEW t \in Task, BeginEnqueue(t)
      PROVE  OnlyTheCached' /\ CloserAlone' /\ ClosedIsQuiet'
  BY <1>1 DEF BeginEnqueue, Moves
<1>2. ASSUME NEW t \in Task, Connected(t)
      PROVE  OnlyTheCached' /\ CloserAlone' /\ ClosedIsQuiet'
  BY <1>2 DEF Connected, Moves
<1>3. ASSUME NEW t \in Task, ConnectFails(t) \/ Cancel(t)
      PROVE  OnlyTheCached' /\ CloserAlone' /\ ClosedIsQuiet'
  <2>1. /\ at[t] \in {"connecting", "enqueueing"} /\ Moves(t, "idle", NoPool)
        /\ UNCHANGED <<cache, open, made, failedOn, lost, closed>>
    BY <1>3 DEF ConnectFails, Cancel
  <2> QED BY <2>1 DEF Moves
<1>4. ASSUME NEW t \in Task, EnqueueEnds(t)
      PROVE  OnlyTheCached' /\ CloserAlone' /\ ClosedIsQuiet'
  BY <1>4 DEF EnqueueEnds, Moves
<1>5. ASSUME NEW t \in Task, EnqueueFails(t)
      PROVE  OnlyTheCached' /\ CloserAlone' /\ ClosedIsQuiet'
  BY <1>5 DEF EnqueueFails, Moves
<1>6. ASSUME NEW t \in Task, BeginClose(t)
      PROVE  OnlyTheCached' /\ CloserAlone' /\ ClosedIsQuiet'
  BY <1>6 DEF BeginClose, Moves, InFlight
<1>7. ASSUME NEW t \in Task, Aclose(t)
      PROVE  OnlyTheCached' /\ CloserAlone' /\ ClosedIsQuiet'
  <2>1. Losses' # 0
    BY <1>7 DEF Aclose
  <2>2. /\ at' = [at EXCEPT ![t] = "closed"] /\ open' = open \ {using[t]}
        /\ UNCHANGED <<cache, using, lost, closed>>
        /\ at[t] = "closing"
    BY <1>7 DEF Aclose
  <2>3. ClosedIsQuiet'
    BY <2>2
  <2>4. CloserAlone'
    <3>1. CASE closed = "closing" /\ Clean /\ lost.closes = 1
      <4>1. /\ open \subseteq {using[t]} /\ using[t] = cache
            /\ \A u \in Task \ {t} : at[u] = "idle"
        BY <2>2, <3>1
      <4> QED BY <2>2, <4>1
    <3> QED BY <2>2, <3>1
  <2> QED BY <2>1, <2>3, <2>4
<1>8. ASSUME NEW t \in Task, EndClose(t)
      PROVE  OnlyTheCached' /\ CloserAlone' /\ ClosedIsQuiet'
  BY <1>8 DEF EndClose, Moves
<1>9. CASE PoolsCut
  BY <1>9 DEF PoolsCut
<1> QED
  BY <1>1, <1>2, <1>3, <1>4, <1>5, <1>6, <1>7, <1>8, <1>9 DEF PoolStep, PoolActs

(* A close() that has the service for itself, with nothing lost before,    *)
(* leaves no pool and no connection.                                       *)
THEOREM ShutdownsAreClean == Spec => []CleanShutdown
<1> DEFINE Inv == PoolInv /\ OnlyTheCached /\ CloserAlone /\ ClosedIsQuiet
<1>1. Init => Inv
  BY PoolAssumption
     DEF Init, PoolInit, PoolInv, PoolTypeOK, NoPoison, Pool, NoPool, Losses, Clean,
         Closing, OnlyTheCached, CloserAlone, ClosedIsQuiet
<1>2. Inv /\ [Next]_vars => Inv'
  <2>1. ASSUME Inv, UNCHANGED poolVars PROVE Inv'
    BY <2>1 DEF poolVars, PoolInv, PoolTypeOK, NoPoison, Pool, NoPool, Losses,
                Clean, Closing, OnlyTheCached, CloserAlone, ClosedIsQuiet
  <2> QED BY <2>1, PoolStepInv, QuietStep, PoolMovesAlone
<1>3. Inv => CleanShutdown
  BY DEF ClosedIsQuiet, Clean, CleanShutdown, PoolInv, PoolTypeOK
<1> QED BY <1>1, <1>2, <1>3, PTL DEF Spec

-----------------------------------------------------------------------------
(* The API process.                                                        *)

Database == {"none", "queued", "running", "ok", "unavailable"}
RedisWord == {"none", "running", "ok", "unavailable"}
WorkerWord == {"none", "running", "ok", "no_recent_heartbeat"}
Checks == [database : Database, redis : RedisWord, worker : WorkerWord]

ApiTypeOK ==
  /\ redis \in {"up", "down"} /\ db \in {"up", "refusing", "wedged"}
  /\ kind \in [Req -> Kind \cup {"none"}]
  /\ status_code \in [Req -> {200, 422, 500, 503}]
  /\ told \in [Req -> {0, 200, 422, 503}]
  /\ check \in [Req -> Checks]
  /\ gauge \in Int
  /\ counted \in [Class -> Nat]
  /\ saw \in [Req -> SUBSET {"database", "redis"}]
  /\ missed \in [Req -> BOOLEAN]

(* What a request has not been told counts as a 500.                       *)
StatusIsTold ==
  \A r \in Req :
    /\ status_code[r] = IF told[r] = 0 THEN 500 ELSE told[r]
    /\ kind[r] = "none" => told[r] = 0

(* What the checks of a request have found is in its history.              *)
Seeing(r) ==
  /\ Up \subseteq saw[r]
  /\ check[r].database = "ok" => "database" \in saw[r]
  /\ check[r].redis = "ok" => "redis" \in saw[r]
  /\ Missing # {} => missed[r]
  /\ (check[r].database = "unavailable" \/ check[r].redis = "unavailable") => missed[r]
  /\ check[r].redis # "none" /\ check[r].database # "none"

Explained(r) ==
  kind[r] = "ready" =>
    /\ told[r] = 0 => Seeing(r)
    /\ told[r] = 200 => saw[r] = {"database", "redis"}
    /\ told[r] = 503 => missed[r]

(* No component changes Redis.                                             *)
LEMMA RedisStays ==
  /\ PoolActs => UNCHANGED redis
  /\ HeartbeatNext => UNCHANGED redis
  /\ DeployNext => UNCHANGED redis
<1>1. PoolActs => UNCHANGED redis
  BY DEF PoolActs, PoolStep, BeginEnqueue, Connected, ConnectFails, EnqueueEnds,
         EnqueueFails, Cancel, BeginClose, Aclose, EndClose
<1>2. HeartbeatNext => UNCHANGED redis
  BY DEF HeartbeatNext, StartWorker, Beat, CrashWorker, StopWorker, Tick
<1>3. DeployNext => UNCHANGED redis
  BY DEF DeployNext, Begin, Pull, Validate, Build, Migrate, Up_d, StartEnds, WaitReady,
         Verify, Verdict, Interrupt, EditEnv, Checkout, UpByHand, Push, Start,
         StartByHand, BecomesHealthy, Falls, Aside
<1> QED BY <1>1, <1>2, <1>3

LEMMA ApiMovesAlone ==
  [Next]_vars =>
    \/ ReadinessNext
    \/ redis' \in {"up", "down"} /\ RedisSeen
    \/ UNCHANGED <<redis, apiVars>>
BY RedisStays
   DEF Next, PoolMoves, PoolActs, HeartbeatMoves, ApiMoves, DeployMoves, SchemaMoves,
       RedisFails, RedisReturns, Fails, Returns, vars

LEMMA ApiTypeStep ==
  ASSUME ApiTypeOK, [Next]_vars PROVE ApiTypeOK'
<1> USE DEF ApiTypeOK, Class
<1>1. ASSUME NEW r \in Req, NEW k \in Kind, Arrive(r, k) PROVE ApiTypeOK'
  <2>1. Opened \in Checks /\ NoCheck \in Checks
    BY DEF Opened, NoCheck, Checks, Database, RedisWord, WorkerWord
  <2> QED BY <1>1, <2>1 DEF Arrive, Enter, Up, Missing
<1>2. NoCheck \in Checks
  BY DEF NoCheck, Checks, Database, RedisWord, WorkerWord
<1>3. ASSUME NEW r \in Req, NEW s \in {200, 422, 503}, Send(r, s) PROVE ApiTypeOK'
  BY <1>2, <1>3 DEF Send
<1>4. ASSUME NEW r \in Req, Exit(r) PROVE ApiTypeOK'
  <2>0. _status_class(status_code[r]) \in Class /\ counted \in [Class -> Nat]
    BY SMTT(60) DEF _status_class
  <2>1. counted' \in [Class -> Nat]
    BY <1>4, <2>0, SMTT(60) DEF Exit, Bump
  <2> QED BY <1>2, <1>4, <2>1 DEF Exit, Leave
<1>5. ASSUME NEW r \in Req, NEW n \in {"database", "redis", "worker"}, NEW from, NEW w,
             Finds(r, n, from, w),
             n = "database" => w \in Database,
             n = "redis" => w \in RedisWord, n = "worker" => w \in WorkerWord
      PROVE  /\ check' \in [Req -> Checks]
             /\ UNCHANGED <<redis, db, kind, status_code, told, gauge, counted, saw>>
  BY <1>5 DEF Finds, Checks
<1>6. ASSUME NEW r \in Req,
             PingStarts(r) \/ PingEnds(r) \/ PingTimesOut(r) \/ PingNeverStarts(r)
      PROVE  ApiTypeOK'
  <2>1. /\ check' \in [Req -> Checks]
        /\ UNCHANGED <<redis, db, kind, status_code, told, gauge, counted, saw>>
    <3>1. \E from, w \in Database : Finds(r, "database", from, w)
      BY <1>6 DEF PingStarts, PingEnds, PingTimesOut, PingNeverStarts, Database
    <3> QED BY <1>5, <3>1
  <2>2. missed' = missed \/ missed' = [missed EXCEPT ![r] = TRUE]
    BY <1>6 DEF PingStarts, PingEnds, PingTimesOut, PingNeverStarts
  <2>3. missed' \in [Req -> BOOLEAN]
    BY <2>2, ZenonT(60)
  <2> QED BY <2>1, <2>3
<1>7. ASSUME NEW r \in Req, _check_redis(r) \/ _check_worker_heartbeat(r) PROVE ApiTypeOK'
  <2>1. \/ \E from, w \in RedisWord : Finds(r, "redis", from, w)
        \/ \E from, w \in WorkerWord : Finds(r, "worker", from, w)
    BY <1>7 DEF _check_redis, _check_worker_heartbeat, RedisWord, WorkerWord
  <2>2. missed' = missed
    BY <1>7 DEF _check_redis, _check_worker_heartbeat
  <2> QED BY <1>5, <2>1, <2>2
<1>8. CASE StuckPingEnds BY <1>8 DEF StuckPingEnds
<1>9. CASE DatabaseChanges \/ (redis' \in {"up", "down"} /\ RedisSeen)
  <2>1. Up' \in SUBSET {"database", "redis"}
    BY DEF Up
  <2>2. Seen
    BY <1>9 DEF DatabaseChanges, RedisSeen
  <2>3. saw' \in [Req -> SUBSET {"database", "redis"}]
    BY <2>1, <2>2 DEF Seen
  <2>4. missed' \in [Req -> BOOLEAN]
    BY <2>2 DEF Seen
  <2> QED BY <1>9, <2>3, <2>4 DEF DatabaseChanges, RedisSeen
<1>10. CASE Restart
  BY <1>2, <1>10 DEF Restart, Zero
<1>11. CASE UNCHANGED <<redis, apiVars>>
  BY <1>11 DEF apiVars
<1>12. ASSUME NEW r \in Req, Serve(r) PROVE ApiTypeOK'
  BY <1>12, <1>3, <1>4, <1>6, <1>7
     DEF Serve, Finish, Handle, liveness, readiness
<1> QED
  BY <1>1, <1>8, <1>9, <1>10, <1>11, <1>12, ApiMovesAlone DEF ReadinessNext

LEMMA StatusStep ==
  ASSUME ApiTypeOK, StatusIsTold, CountedAsTold, [Next]_vars
  PROVE  StatusIsTold' /\ CountedAsTold'
<1> USE DEF ApiTypeOK, StatusIsTold, CountedAsTold
<1>1. ASSUME NEW r \in Req, NEW k \in Kind, Arrive(r, k)
      PROVE  StatusIsTold' /\ CountedAsTold'
  BY <1>1 DEF Arrive, Enter
<1>2. ASSUME NEW r \in Req, NEW s \in {200, 422, 503}, kind[r] # "none", Send(r, s)
      PROVE  StatusIsTold' /\ CountedAsTold'
  BY <1>2 DEF Send
<1>3. ASSUME NEW r \in Req, Exit(r) PROVE StatusIsTold' /\ CountedAsTold'
  <2>1. status_code[r] = IF told[r] = 0 THEN 500 ELSE told[r]
    OBVIOUS
  <2>2. CountedAsTold'
    BY <1>3, <2>1 DEF Exit, Bump
  <2>3. StatusIsTold'
    BY <1>3 DEF Exit
  <2> QED BY <2>2, <2>3
<1>4. ASSUME UNCHANGED <<kind, status_code, told, counted, served>>
      PROVE  StatusIsTold' /\ CountedAsTold'
  BY <1>4
<1>5. ASSUME NEW r \in Req, Serve(r) PROVE StatusIsTold' /\ CountedAsTold'
  <2>1. CASE Finish(r) \/ Handle(r) \/ liveness(r) \/ readiness(r)
    BY <1>2, <1>3, <2>1 DEF Finish, Handle, liveness, readiness, Kind
  <2>2. CASE PingStarts(r) \/ PingEnds(r) \/ PingTimesOut(r) \/ PingNeverStarts(r)
             \/ _check_redis(r) \/ _check_worker_heartbeat(r)
    BY <1>4, <2>2
       DEF PingStarts, PingEnds, PingTimesOut, PingNeverStarts, _check_redis,
           _check_worker_heartbeat, Finds
  <2> QED BY <1>5, <2>1, <2>2 DEF Serve
<1>6. CASE StuckPingEnds \/ DatabaseChanges \/ RedisSeen \/ UNCHANGED <<redis, apiVars>>
  BY <1>4, <1>6 DEF StuckPingEnds, DatabaseChanges, RedisSeen, apiVars
<1>7. CASE Restart
  BY <1>7 DEF Restart
<1> QED BY <1>1, <1>5, <1>6, <1>7, ApiMovesAlone DEF ReadinessNext

LEMMA GaugeStep ==
  ASSUME ApiTypeOK, StatusIsTold, GaugeIsInFlight, [Next]_vars PROVE GaugeIsInFlight'
<1> USE DEF ApiTypeOK, GaugeIsInFlight
<1>0. IsFiniteSet(InProgress)
  BY ReadinessAssumption, FS_Subset DEF InProgress
<1>1. ASSUME NEW r \in Req, NEW k \in Kind, Arrive(r, k) PROVE GaugeIsInFlight'
  <2>1. InProgress' = InProgress \cup {r} /\ r \notin InProgress
    BY <1>1 DEF Arrive, Enter, InProgress, Kind
  <2>2. Cardinality(InProgress') = Cardinality(InProgress) + 1
    BY <1>0, <2>1, FS_AddElement, ZenonT(60)
  <2> QED BY <1>1, <2>2 DEF Arrive, Enter
<1>2. ASSUME NEW r \in Req, kind[r] # "none", Exit(r) PROVE GaugeIsInFlight'
  <2>1. InProgress' = InProgress \ {r} /\ r \in InProgress
    BY <1>2 DEF Exit, InProgress
  <2>2. Cardinality(InProgress') = Cardinality(InProgress) - 1
    BY <1>0, <2>1, FS_RemoveElement, ZenonT(60)
  <2> QED BY <1>2, <2>2 DEF Exit, Leave
<1>3. ASSUME UNCHANGED <<kind, gauge>> PROVE GaugeIsInFlight'
  <2>1. InProgress' = InProgress
    BY <1>3 DEF InProgress
  <2> QED BY <1>3, <2>1
<1>4. ASSUME NEW r \in Req, Serve(r) PROVE GaugeIsInFlight'
  <2>1. CASE Finish(r)
    BY <1>2, <2>1 DEF Finish, StatusIsTold
  <2>2. CASE Handle(r) \/ liveness(r) \/ readiness(r)
    BY <1>2, <1>3, <2>2 DEF Handle, liveness, readiness, Send
  <2>3. CASE PingStarts(r) \/ PingEnds(r) \/ PingTimesOut(r) \/ PingNeverStarts(r)
             \/ _check_redis(r) \/ _check_worker_heartbeat(r)
    BY <1>3, <2>3
       DEF PingStarts, PingEnds, PingTimesOut, PingNeverStarts, _check_redis,
           _check_worker_heartbeat, Finds
  <2> QED BY <1>4, <2>1, <2>2, <2>3 DEF Serve
<1>5. CASE StuckPingEnds \/ DatabaseChanges \/ RedisSeen \/ UNCHANGED <<redis, apiVars>>
  BY <1>3, <1>5 DEF StuckPingEnds, DatabaseChanges, RedisSeen, apiVars
<1>6. CASE Restart
  <2>1. InProgress' = {} /\ gauge' = 0
    BY <1>6 DEF Restart, InProgress
  <2> QED BY <2>1, FS_EmptySet
<1> QED BY <1>1, <1>4, <1>5, <1>6, ApiMovesAlone DEF ReadinessNext

LEMMA ExplainedStep ==
  ASSUME ApiTypeOK, StatusIsTold, \A r \in Req : Explained(r), [Next]_vars,
         NEW q \in Req
  PROVE  Explained(q)'
<1> USE DEF ApiTypeOK
<1>0. Explained(q)
  OBVIOUS
<1> DEFINE Same == UNCHANGED <<kind[q], told[q], check[q], saw[q], missed[q], Up>>
<1>1. CASE Same
  <2>1. /\ kind'[q] = kind[q] /\ told'[q] = told[q] /\ check'[q] = check[q]
        /\ saw'[q] = saw[q] /\ missed'[q] = missed[q] /\ Up' = Up
    BY <1>1
  <2>2. Missing' = Missing
    BY <2>1 DEF Missing
  <2> QED BY <1>0, <2>1, <2>2 DEF Explained, Seeing
<1>2. ASSUME NEW k \in Kind, Arrive(q, k) PROVE Explained(q)'
  <2>1. Up' = Up /\ Missing' = Missing /\ told'[q] = 0
    BY <1>2 DEF Arrive, Up, Missing, StatusIsTold
  <2>2. /\ kind'[q] = k
        /\ k = "ready" => /\ check'[q] = Opened /\ saw'[q] = Up
                          /\ Missing # {} => missed'[q]
    <3>1. kind'[q] = k /\ (k = "ready" => check'[q] = Opened /\ saw'[q] = Up)
      BY <1>2 DEF Arrive, Enter
    <3>2. missed' = [missed EXCEPT ![q] = k = "ready" /\ Missing # {}]
      BY <1>2 DEF Arrive
    <3>3. CASE k = "ready" /\ Missing # {}
      <4>1. missed' = [missed EXCEPT ![q] = TRUE]
        BY <3>2, <3>3, Zenon
      <4> QED BY <3>1, <4>1
    <3> QED BY <3>1, <3>3
  <2>3. k = "ready" => Seeing(q)'
    <3> SUFFICES ASSUME k = "ready" PROVE Seeing(q)'
      OBVIOUS
    <3>1. check'[q].database = "queued" /\ check'[q].redis = "running"
      BY <2>2 DEF Opened
    <3> QED BY <2>1, <2>2, <3>1 DEF Seeing
  <2> QED BY <2>1, <2>2, <2>3 DEF Explained
<1>3. ASSUME NEW r \in Req, r # q, NEW k \in Kind, Arrive(r, k) PROVE Same
  BY <1>3 DEF Arrive, Enter, Up
<1>4. CASE Exit(q)
  BY <1>4 DEF Exit, Explained
<1>5. CASE StuckPingEnds
  BY <1>5, <1>1 DEF StuckPingEnds, Up
<1>6. CASE DatabaseChanges \/ (redis' \in {"up", "down"} /\ RedisSeen)
  <2>1. Seen /\ kind' = kind /\ told' = told /\ check' = check
    BY <1>6 DEF DatabaseChanges, RedisSeen
  <2>2. CASE ~Asks(q)
    BY <1>0, <2>1, <2>2 DEF Seen, Asks, Checking, Explained
  <2>3. CASE Asks(q)
    <3>1. /\ saw'[q] = saw[q] \cup Up'
          /\ (missed[q] \/ Missing' # {}) => missed'[q]
      BY <2>1, <2>3 DEF Seen
    <3>2. Seeing(q) /\ told[q] = 0
      BY <1>0, <2>3 DEF Asks, Checking, Explained
    <3>3. Seeing(q)'
      BY <2>1, <3>1, <3>2 DEF Seeing
    <3> QED BY <2>1, <3>2, <3>3 DEF Explained
  <2> QED BY <2>2, <2>3
<1>7. CASE Restart
  BY <1>7 DEF Restart, Explained
<1>8. CASE UNCHANGED <<redis, apiVars>>
  BY <1>1, <1>8 DEF apiVars, Up
<1>9. ASSUME NEW r \in Req, r # q, Serve(r) PROVE Same
  <2>1. CASE Finish(r) \/ Handle(r) \/ liveness(r) \/ readiness(r)
    BY <1>9, <2>1 DEF Finish, Handle, liveness, readiness, Exit, Send, Up
  <2>2. CASE PingStarts(r) \/ PingEnds(r) \/ PingTimesOut(r) \/ PingNeverStarts(r)
    BY <1>9, <2>2 DEF PingStarts, PingEnds, PingTimesOut, PingNeverStarts, Finds, Up
  <2>3. CASE _check_redis(r) \/ _check_worker_heartbeat(r)
    BY <1>9, <2>3 DEF _check_redis, _check_worker_heartbeat, Finds, Up
  <2> QED BY <1>9, <2>1, <2>2, <2>3 DEF Serve
<1>10. CASE Serve(q)
  <2>1. CASE Finish(q) \/ Handle(q) \/ liveness(q)
    BY <1>4, <2>1 DEF Finish, Handle, liveness, Send, Explained
  <2>2. CASE readiness(q)
    <3>1. /\ kind[q] = "ready" /\ told[q] = 0 /\ kind' = kind
          /\ saw' = saw /\ missed' = missed
          /\ told'[q] = IF Ready(q) THEN 200 ELSE 503
          /\ check[q].database \in {"ok", "unavailable"} /\ check[q].redis # "running"
      BY <2>2 DEF readiness, Send
    <3>2. Seeing(q) /\ check[q].redis \in RedisWord
      BY <1>0, <3>1 DEF Explained, Checks
    <3>3. Ready(q) => saw[q] = {"database", "redis"}
      BY <3>2 DEF Ready, Seeing
    <3>4. ~Ready(q) => missed[q]
      BY <3>1, <3>2 DEF Ready, Seeing, RedisWord
    <3> QED BY <3>1, <3>3, <3>4 DEF Explained
  <2>3. CASE PingStarts(q) \/ PingEnds(q) \/ PingTimesOut(q) \/ PingNeverStarts(q)
             \/ _check_redis(q) \/ _check_worker_heartbeat(q)
    <3>1. /\ UNCHANGED <<redis, db, kind, told, saw>>
          /\ missed[q] => missed'[q]
      BY <2>3 DEF PingStarts, PingEnds, PingTimesOut, PingNeverStarts, _check_redis,
                  _check_worker_heartbeat, Finds
    <3>2. Up' = Up /\ Missing' = Missing
      BY <3>1 DEF Up, Missing
    <3>3. CASE ~(kind[q] = "ready" /\ told[q] = 0)
      BY <1>0, <3>1, <3>3 DEF Explained
    <3>4. CASE kind[q] = "ready" /\ told[q] = 0
      <4>1. Seeing(q)
        BY <1>0, <3>4 DEF Explained
      <4>2. check'[q].database # check[q].database =>
              /\ check'[q].database # "none"
              /\ check'[q].database = "ok" => db = "up"
              /\ check'[q].database = "unavailable" => db # "up" \/ missed'[q]
        BY <2>3 DEF PingStarts, PingEnds, PingTimesOut, PingNeverStarts, _check_redis,
                    _check_worker_heartbeat, Finds, Checks
      <4>3. check'[q].redis # check[q].redis =>
              check'[q].redis = IF redis = "up" THEN "ok" ELSE "unavailable"
        BY <2>3 DEF PingStarts, PingEnds, PingTimesOut, PingNeverStarts, _check_redis,
                    _check_worker_heartbeat, Finds, Checks
      <4>4. /\ db = "up" <=> "database" \in Up
            /\ redis = "up" <=> "redis" \in Up
            /\ Missing = {"database", "redis"} \ Up
        BY DEF Up, Missing
      <4> QED BY <3>1, <3>2, <3>4, <4>1, <4>2, <4>3, <4>4 DEF Explained, Seeing
    <3> QED BY <3>3, <3>4
  <2> QED BY <1>10, <2>1, <2>2, <2>3 DEF Serve
<1> QED
  BY <1>1, <1>2, <1>3, <1>5, <1>6, <1>7, <1>8, <1>9, <1>10, ApiMovesAlone
     DEF ReadinessNext

LEMMA ApiInit == Init => ApiTypeOK /\ StatusIsTold /\ CountedAsTold
<1> SUFFICES ASSUME Init PROVE ApiTypeOK /\ StatusIsTold /\ CountedAsTold
  OBVIOUS
<1>1. NoCheck \in Checks /\ Zero \in [Class -> Nat]
  BY DEF NoCheck, Checks, Database, RedisWord, WorkerWord, Zero
<1> QED
  BY <1>1 DEF Init, RedisInit, ReadinessInit, ApiTypeOK, StatusIsTold, CountedAsTold

MetricsInv == ApiTypeOK /\ StatusIsTold /\ CountedAsTold /\ GaugeIsInFlight

(* So the middleware keeps its books in every reachable state.             *)
LEMMA MetricsAlways == Spec => []MetricsInv
<1>1. Init => MetricsInv
  <2> SUFFICES ASSUME Init PROVE GaugeIsInFlight
    BY ApiInit DEF MetricsInv
  <2>1. InProgress = {} /\ gauge = 0
    BY DEF Init, ReadinessInit, InProgress
  <2> QED BY <2>1, FS_EmptySet DEF GaugeIsInFlight
<1>2. MetricsInv /\ [Next]_vars => MetricsInv'
  BY ApiTypeStep, StatusStep, GaugeStep DEF MetricsInv
<1> QED BY <1>1, <1>2, PTL DEF Spec

(* The gauge counts the requests inside and the counters tell what the     *)
(* clients were told, for any number of requests at a time.                *)
THEOREM MetricsTellTheTruth == Spec => []MetricsTrue
<1>1. MetricsInv => MetricsTrue
  BY DEF MetricsInv, MetricsTrue
<1> QED BY <1>1, MetricsAlways, PTL

(* 200 means that both dependencies answered during the request, 503 that  *)
(* one was missing at some time or no thread was free, whatever comes and  *)
(* goes meanwhile, for any number of requests and threads.                 *)
THEOREM ReadinessHasReasons == Spec => []ReadinessExplained
<1> DEFINE AllExplained == \A r \in Req : Explained(r)
           Inv == ApiTypeOK /\ StatusIsTold /\ CountedAsTold /\ AllExplained
<1>1. Init => Inv
  <2>1. Init => AllExplained
    BY DEF Init, ReadinessInit, Explained
  <2> QED BY <2>1, ApiInit
<1>2. Inv /\ [Next]_vars => Inv'
  <2>1. ASSUME Inv, [Next]_vars PROVE AllExplained'
    BY <2>1, ExplainedStep
  <2> QED BY <2>1, ApiTypeStep, StatusStep
<1>3. Inv => ReadinessExplained
  BY DEF ReadinessExplained, ReadyHadBoth, NotReadyExplained, Checking, Explained
<1> QED BY <1>1, <1>2, <1>3, PTL DEF Spec
-----------------------------------------------------------------------------
(* The executor.  Pings in progress and pings nobody waits for share its   *)
(* threads.                                                                *)
ThreadsOK == stuck \in Nat /\ Free \in 0..Threads

(* Without a new ping there is nothing to count.                           *)
LEMMA NoNewPing ==
  ASSUME ThreadsOK, Pinging' \subseteq Pinging, stuck' \in Nat, stuck' <= stuck
  PROVE  ThreadsOK'
<1>1. IsFiniteSet(Pinging)
  BY ReadinessAssumption, FS_Subset DEF Pinging
<1>2. /\ Cardinality(Pinging) \in Nat /\ Cardinality(Pinging') \in Nat
      /\ Cardinality(Pinging') <= Cardinality(Pinging)
  BY <1>1, FS_Subset, FS_CardinalityType
<1> QED BY <1>2, ReadinessAssumption DEF ThreadsOK, Free

(* Only a ping takes a thread, and only one that is free.                  *)
LEMMA ThreadsStep ==
  ASSUME ApiTypeOK, ThreadsOK, [Next]_vars PROVE ThreadsOK'
<1>0. IsFiniteSet(Pinging) /\ Cardinality(Pinging) \in Nat /\ Threads \in Nat
  BY ReadinessAssumption, FS_Subset, FS_CardinalityType DEF Pinging
<1>1. ASSUME stuck' \in Nat, stuck' <= stuck,
             \A r \in Req : check'[r].database = "running" => check[r].database = "running"
      PROVE  ThreadsOK'
  <2>1. Pinging' \subseteq Pinging
    BY <1>1 DEF Pinging
  <2> QED BY <1>1, <2>1, NoNewPing
<1>2. stuck \in Nat /\ check \in [Req -> Checks]
  BY DEF ThreadsOK, ApiTypeOK
<1>3. ASSUME NEW r \in Req, PingStarts(r) PROVE ThreadsOK'
  <2>1. /\ Pinging' = Pinging \cup {r} /\ r \notin Pinging /\ stuck' = stuck
    BY <1>2, <1>3 DEF PingStarts, Finds, Pinging, Checks
  <2>2. Cardinality(Pinging') = Cardinality(Pinging) + 1
    BY <1>0, <2>1, FS_AddElement
  <2>3. Free > 0
    BY <1>3 DEF PingStarts
  <2> QED BY <1>0, <2>1, <2>2, <2>3 DEF ThreadsOK, Free
<1>4. ASSUME NEW r \in Req, PingTimesOut(r) PROVE ThreadsOK'
  <2>1. /\ Pinging' = Pinging \ {r} /\ r \in Pinging /\ stuck' = stuck + 1
    BY <1>2, <1>4 DEF PingTimesOut, Finds, Pinging, Checks
  <2>2. Cardinality(Pinging') = Cardinality(Pinging) - 1
    BY <1>0, <2>1, FS_RemoveElement
  <2> QED BY <1>0, <2>1, <2>2 DEF ThreadsOK, Free
<1>5. ASSUME NEW r \in Req, PingEnds(r) \/ PingNeverStarts(r) \/ _check_redis(r)
                              \/ _check_worker_heartbeat(r)
      PROVE  ThreadsOK'
  <2>1. stuck' = stuck
    BY <1>5 DEF PingEnds, PingNeverStarts, _check_redis, _check_worker_heartbeat
  <2>2. \E n \in {"database", "redis", "worker"} : \E w :
          /\ check' = [check EXCEPT ![r][n] = w]
          /\ n = "database" => w # "running"
    BY <1>5 DEF PingEnds, PingNeverStarts, _check_redis, _check_worker_heartbeat, Finds
  <2>3. \A q \in Req : check'[q].database = "running" => check[q].database = "running"
    BY <1>2, <2>2 DEF Checks
  <2> QED BY <1>1, <1>2, <2>1, <2>3
<1>6. ASSUME NEW r \in Req, Finish(r) \/ Handle(r) \/ liveness(r) \/ readiness(r)
      PROVE  ThreadsOK'
  <2>1. stuck' = stuck /\ check' = [check EXCEPT ![r] = NoCheck]
    BY <1>6 DEF Finish, Handle, liveness, readiness, Send, Exit
  <2>2. \A q \in Req : check'[q].database = "running" => check[q].database = "running"
    BY <1>2, <2>1 DEF NoCheck
  <2> QED BY <1>1, <1>2, <2>1, <2>2
<1>7. ASSUME NEW r \in Req, NEW k \in Kind, Arrive(r, k) PROVE ThreadsOK'
  <2>1. stuck' = stuck /\ check' = [check EXCEPT ![r] = IF k = "ready" THEN Opened ELSE NoCheck]
    BY <1>7 DEF Arrive
  <2>2. \A q \in Req : check'[q].database = "running" => check[q].database = "running"
    BY <1>2, <2>1 DEF NoCheck, Opened
  <2> QED BY <1>1, <1>2, <2>1, <2>2
<1>8. CASE StuckPingEnds
  BY <1>1, <1>2, <1>8 DEF StuckPingEnds
<1>9. CASE Restart
  <2>1. stuck' = 0 /\ \A q \in Req : check'[q].database # "running"
    BY <1>9 DEF Restart, NoCheck
  <2> QED BY <1>1, <1>2, <2>1
<1>10. CASE DatabaseChanges \/ RedisSeen \/ UNCHANGED <<redis, apiVars>>
  BY <1>1, <1>2, <1>10 DEF DatabaseChanges, RedisSeen, apiVars
<1> QED
  BY <1>3, <1>4, <1>5, <1>6, <1>7, <1>8, <1>9, <1>10, ApiMovesAlone
     DEF ReadinessNext, Serve

(* Pings, abandoned or not, never hold more threads than the executor has. *)
LEMMA ThreadsAlways == Spec => []ThreadsOK
<1>1. Init => ThreadsOK
  <2> SUFFICES ASSUME Init PROVE ThreadsOK
    OBVIOUS
  <2>1. Pinging = {} /\ stuck = 0
    BY DEF Init, ReadinessInit, Pinging, NoCheck
  <2> QED BY <2>1, FS_EmptySet, ReadinessAssumption DEF ThreadsOK, Free
<1>2. MetricsInv /\ ThreadsOK /\ [Next]_vars => ThreadsOK'
  BY ThreadsStep DEF MetricsInv
<1> QED BY <1>1, <1>2, MetricsAlways, PTL DEF Spec

-----------------------------------------------------------------------------
(* What the revisions create and seed *)

LEMMA FiveRevisions ==
  /\ Creates[1] = PersonTables \cup EventTables \cup ReportTables
  /\ Creates[2] = {} /\ Creates[3] = {}
  /\ Creates[4] = UserTables /\ Creates[5] = AuthorizationTables
  /\ Seeds[1] = {} /\ Seeds[2] = {"roles"} /\ Seeds[3] = {"event_responsibilities"}
  /\ Seeds[4] = {} /\ Seeds[5] = {"application_roles", "permissions"}
BY DEF Creates, Seeds

(* A revision is one of the five.                                          *)
LEMMA RevisionIsOneOf == \A r \in Revision : r = 1 \/ r = 2 \/ r = 3 \/ r = 4 \/ r = 5
BY DEF Revision

(* A table is created by one revision.                                     *)
LEMMA CreatedOnce ==
  ASSUME NEW q \in Revision, NEW r \in Revision, q # r
  PROVE  Creates[q] \cap Creates[r] = {}
<1>1. /\ Creates[1] \cap Creates[4] = {} /\ Creates[1] \cap Creates[5] = {}
      /\ Creates[4] \cap Creates[5] = {}
  BY FiveRevisions
  DEF PersonTables, EventTables, ReportTables, UserTables, AuthorizationTables
<1> QED BY <1>1, FiveRevisions, RevisionIsOneOf

(* A table exists at v when a revision up to v creates it.                 *)
LEMMA TablesMember ==
  ASSUME NEW v \in 0..5, NEW t
  PROVE  t \in TablesAt(v) <=> \E r \in Revision : r <= v /\ t \in Creates[r]
BY DEF TablesAt, Revision

(* A revision adds its tables to those before it, and takes them away.     *)
LEMMA TablesGrow ==
  ASSUME NEW r \in Revision
  PROVE  /\ TablesAt(r) = TablesAt(r - 1) \cup Creates[r]
         /\ TablesAt(r - 1) = TablesAt(r) \ Creates[r]
<1>0. r \in 0..5 /\ r - 1 \in 0..5
  BY DEF Revision
<1>1. ASSUME NEW t
      PROVE  t \in TablesAt(r) <=> t \in TablesAt(r - 1) \/ t \in Creates[r]
  BY <1>0, TablesMember DEF Revision
<1>2. ASSUME NEW t, t \in Creates[r] PROVE t \notin TablesAt(r - 1)
  <2>1. ASSUME NEW q \in Revision, q <= r - 1, t \in Creates[q] PROVE FALSE
    BY <1>2, <2>1, CreatedOnce DEF Revision
  <2> QED BY <2>1, <1>0, TablesMember
<1> QED BY <1>1, <1>2

(* Later revisions have all the tables of earlier ones.                    *)
LEMMA TablesMonotone ==
  ASSUME NEW v \in 0..5, NEW w \in 0..5, v <= w PROVE TablesAt(v) \subseteq TablesAt(w)
BY TablesMember DEF Revision

(* A table is seeded by one revision, and exists by then.                  *)
LEMMA SeededOnce ==
  ASSUME NEW t \in Seeded
  PROVE  /\ SeededBy(t) \in Revision
         /\ \A r \in Revision : t \in Seeds[r] <=> r = SeededBy(t)
<1>1. PICK r \in Revision : t \in Seeds[r]
  BY DEF Seeded
<1>2. ASSUME NEW q \in Revision, t \in Seeds[q] PROVE q = r
  BY <1>1, <1>2, FiveRevisions, RevisionIsOneOf
<1>3. SeededBy(t) = r
  BY <1>1, <1>2 DEF SeededBy
<1> QED BY <1>1, <1>2, <1>3

LEMMA SeededAfterCreated ==
  ASSUME NEW r \in Revision, NEW t \in Seeded
  PROVE  /\ t \in Seeds[r] => t \in TablesAt(r)
         /\ t \in Creates[r] => r <= SeededBy(t)
<1>1. t \in Seeds[r] => \E q \in Revision : q <= r /\ t \in Creates[q]
  BY FiveRevisions, RevisionIsOneOf
  DEF PersonTables, EventTables, AuthorizationTables, Revision
<1>2. t \in Seeds[r] => t \in TablesAt(r)
  BY <1>1, TablesMember DEF Revision
<1>3. ASSUME NEW q \in Revision, t \in Seeds[q], t \in Creates[r] PROVE r <= q
  BY <1>3, FiveRevisions, RevisionIsOneOf
  DEF PersonTables, EventTables, ReportTables, UserTables, AuthorizationTables
<1>4. t \in Creates[r] => r <= SeededBy(t)
  BY <1>3, SeededOnce
<1> QED BY <1>2, <1>4

-----------------------------------------------------------------------------
(* One revision, in a command's transaction *)

Databases ==
  [at : 0..5, tables : SUBSET TablesAt(5), rows : SUBSET (Seeded \X RowKind),
   ok : BOOLEAN]

Coded(rows, t) == \E k \in {"seed", "sameCode"} : <<t, k>> \in rows

(* Seeding a table adds its row or fails, and keeps what is there.         *)
LEMMA SeedSays ==
  ASSUME NEW d \in Databases, NEW t \in Seeded
  PROVE  /\ Seed(d, t) \in Databases
         /\ d.rows \subseteq Seed(d, t).rows
         /\ Seed(d, t).rows \subseteq d.rows \cup {<<t, "seed">>}
         /\ d.ok /\ Seed(d, t).ok => Coded(Seed(d, t).rows, t)
<1>1. <<t, "seed">> \in Seeded \X RowKind
  BY DEF RowKind
<1>2. CASE Of(d, t, "seed") \/ Of(d, t, "sameCode")
  BY <1>2 DEF Seed, Of, Coded
<1>3. CASE ~(Of(d, t, "seed") \/ Of(d, t, "sameCode")) /\ Of(d, t, "sameName")
  BY <1>3 DEF Seed, Databases
<1>4. CASE ~(Of(d, t, "seed") \/ Of(d, t, "sameCode")) /\ ~Of(d, t, "sameName")
  BY <1>1, <1>4 DEF Seed, Databases, Coded
<1> QED BY <1>2, <1>3, <1>4

(* So does seeding all the tables of a revision.                           *)
LEMMA SeedAllSays ==
  ASSUME NEW d \in Databases, d.ok, NEW r \in Revision
  PROVE  /\ SeedAll(d, r) \in Databases
         /\ SeedAll(d, r).at = d.at /\ SeedAll(d, r).tables = d.tables
         /\ d.rows \subseteq SeedAll(d, r).rows
         /\ SeedAll(d, r).rows \subseteq d.rows \cup (Seeds[r] \X {"seed"})
         /\ SeedAll(d, r).ok => \A t \in Seeds[r] : Coded(SeedAll(d, r).rows, t)
<1>1. Seeds[r] \subseteq Seeded
  BY DEF Seeded
<1> DEFINE rows == {x \in d.rows : x[1] \notin Seeds[r]} \cup
                     UNION {{x \in Seed(d, t).rows : x[1] = t} : t \in Seeds[r]}
           ok   == \A t \in Seeds[r] : Seed(d, t).ok
<1>2. SeedAll(d, r) = [d EXCEPT !.rows = rows, !.ok = ok]
  BY DEF SeedAll
<1>3. d.rows \subseteq rows
  BY <1>1, SeedSays
<1>4. rows \subseteq d.rows \cup (Seeds[r] \X {"seed"})
  BY <1>1, SeedSays
<1>5. ASSUME ok, NEW t \in Seeds[r] PROVE Coded(rows, t)
  <2>1. PICK k \in {"seed", "sameCode"} : <<t, k>> \in Seed(d, t).rows
    BY <1>1, <1>5, SeedSays DEF Coded
  <2>2. <<t, k>> \in {x \in Seed(d, t).rows : x[1] = t}
    BY <2>1
  <2>3. <<t, k>> \in rows
    BY <2>2
  <2> QED BY <2>1, <2>3 DEF Coded
<1>6. Seeds[r] \X {"seed"} \subseteq Seeded \X RowKind
  BY <1>1 DEF RowKind
<1>7. rows \in SUBSET (Seeded \X RowKind) /\ ok \in BOOLEAN
  BY <1>4, <1>6 DEF Databases
<1> HIDE DEF rows, ok
<1>8. /\ SeedAll(d, r) \in Databases
      /\ SeedAll(d, r).at = d.at /\ SeedAll(d, r).tables = d.tables
      /\ SeedAll(d, r).rows = rows /\ SeedAll(d, r).ok = ok
  BY <1>2, <1>7 DEF Databases
<1> QED BY <1>3, <1>4, <1>5, <1>8

(* One upgrade: its tables, its rows, and nothing lost.                    *)
LEMMA UpgradeSays ==
  ASSUME NEW d \in Databases, d.ok, d.at + 1 \in Revision
  PROVE  LET e == Upgrade(d, d.at + 1)
         IN  /\ e \in Databases
             /\ e.at = d.at + 1 /\ e.tables = d.tables \cup Creates[d.at + 1]
             /\ d.rows \subseteq e.rows
             /\ e.rows \subseteq d.rows \cup (Seeds[d.at + 1] \X {"seed"})
             /\ e.ok => \A t \in Seeds[d.at + 1] : Coded(e.rows, t)
<1> DEFINE r == d.at + 1
           c == [d EXCEPT !.tables = @ \cup Creates[r]]
           e == SeedAll(c, r)
<1>1. Creates[r] \subseteq TablesAt(5)
  BY TablesMember DEF Revision
<1>2. c \in Databases /\ c.ok /\ c.rows = d.rows /\ c.tables = d.tables \cup Creates[r]
  BY <1>1 DEF Databases
<1>3. /\ e \in Databases /\ e.tables = d.tables \cup Creates[r]
      /\ d.rows \subseteq e.rows
      /\ e.rows \subseteq d.rows \cup (Seeds[r] \X {"seed"})
      /\ e.ok => \A t \in Seeds[r] : Coded(e.rows, t)
  <2> HIDE DEF c
  <2> QED BY <1>2, SeedAllSays
<1>4. Upgrade(d, r) = [e EXCEPT !.at = r] /\ r \in 0..5
  BY DEF Upgrade, Revision
<1> HIDE DEF e
<1>5. /\ Upgrade(d, r) \in Databases /\ Upgrade(d, r).at = r
      /\ Upgrade(d, r).tables = e.tables /\ Upgrade(d, r).rows = e.rows
      /\ Upgrade(d, r).ok = e.ok
  BY <1>3, <1>4 DEF Databases
<1> QED BY <1>3, <1>5

(* One downgrade: it loses its tables with their rows, or its own rows.    *)
LEMMA DowngradeSays ==
  ASSUME NEW d \in Databases, d.ok, d.at \in Revision
  PROVE  LET e == Downgrade(d, d.at)
         IN  /\ e \in Databases
             /\ e.at = d.at - 1 /\ e.tables = d.tables \ Creates[d.at]
             /\ e.rows \subseteq d.rows
             /\ \A x \in d.rows \ e.rows :
                  \/ x[1] \in Creates[d.at]
                  \/ x[1] \in Seeds[d.at] /\ x[2] = "seed"
             /\ \A x \in e.rows : x[1] \notin Creates[d.at]
<1> DEFINE r == d.at
           e == Downgrade(d, r)
<1>1. r - 1 \in 0..5
  BY DEF Revision
<1>2. CASE r \in {2, 3}
  <2>1. Creates[r] = {}
    BY <1>2, FiveRevisions
  <2>2. /\ e \in Databases /\ e.at = r - 1 /\ e.tables = d.tables
        /\ e.rows = d.rows \ (d.rows \cap (Seeds[r] \X {"seed"}))
    BY <1>1, <1>2 DEF Downgrade, Unseed, Databases
  <2> QED BY <2>1, <2>2
<1>3. CASE r \notin {2, 3}
  <2>1. /\ e \in Databases /\ e.at = r - 1 /\ e.tables = d.tables \ Creates[r]
        /\ e.rows = {x \in d.rows : x[1] \notin Creates[r]}
    BY <1>1, <1>3 DEF Downgrade, Databases
  <2> QED BY <2>1
<1> QED BY <1>2, <1>3

-----------------------------------------------------------------------------
(* A command: one revision after another                                   *)

RowsHaveTables(d) == \A x \in d.rows : x[1] \in d.tables

(* On its way up, a command has the tables of the revision it is at, adds  *)
(* only rows of its own, and leaves every code it passed with a row.       *)
Upgrading(d) ==
  /\ d \in Databases /\ version <= d.at
  /\ d.tables = TablesAt(d.at) /\ RowsHaveTables(d)
  /\ rows_of \subseteq d.rows
  /\ \A x \in d.rows \ rows_of : x[2] = "seed"
  /\ d.ok => \A t \in Seeded :
               version < SeededBy(t) /\ SeededBy(t) <= d.at => Coded(d.rows, t)

(* On its way down, it loses rows with their table, and those it owns.     *)
Downgrading(d) ==
  /\ d \in Databases /\ d.at <= version
  /\ d.tables = TablesAt(d.at) /\ RowsHaveTables(d)
  /\ d.rows \subseteq rows_of
  /\ \A x \in rows_of \ d.rows :
       x[1] \notin d.tables \/ (x[2] = "seed" /\ d.at < SeededBy(x[1]))

(* One revision upwards.                                                   *)
LEMMA StepUpKeeps ==
  ASSUME NEW v \in 0..5, version \in 0..5, NEW d, Upgrading(d)
  PROVE  /\ Upgrading(StepUp(d, v))
         /\ StepUp(d, v).ok =>
              d.ok /\ StepUp(d, v).at = IF d.at < v THEN d.at + 1 ELSE d.at
<1>1. CASE d.ok /\ d.at < v
  <2> DEFINE r == d.at + 1
             e == Upgrade(d, r)
  <2>1. d \in Databases /\ r \in Revision /\ r - 1 = d.at /\ e = StepUp(d, v)
    BY <1>1 DEF Upgrading, Databases, Revision, StepUp
  <2>2. /\ e \in Databases /\ e.at = r /\ e.tables = d.tables \cup Creates[r]
        /\ d.rows \subseteq e.rows
        /\ e.rows \subseteq d.rows \cup (Seeds[r] \X {"seed"})
        /\ e.ok => \A t \in Seeds[r] : Coded(e.rows, t)
    BY <1>1, <2>1, UpgradeSays
  <2> HIDE DEF e
  <2>3. e.tables = TablesAt(r)
    BY <2>1, <2>2, TablesGrow DEF Upgrading
  <2>4. RowsHaveTables(e)
    <3> SUFFICES ASSUME NEW x \in e.rows PROVE x[1] \in e.tables
      BY DEF RowsHaveTables
    <3>1. CASE x \in d.rows
      BY <3>1, <2>2 DEF Upgrading, RowsHaveTables
    <3>2. CASE x \in Seeds[r] \X {"seed"}
      BY <3>2, <2>1, <2>3, SeededAfterCreated DEF Seeded
    <3> QED BY <3>1, <3>2, <2>2
  <2>5. ASSUME NEW x \in e.rows \ rows_of PROVE x[2] = "seed"
    BY <2>2, <2>5 DEF Upgrading
  <2>6. ASSUME e.ok, NEW t \in Seeded, version < SeededBy(t), SeededBy(t) <= r
        PROVE  Coded(e.rows, t)
    <3>1. SeededBy(t) \in Revision
      BY SeededOnce
    <3>2. CASE SeededBy(t) = r
      BY <3>2, <2>1, <2>2, <2>6, SeededOnce
    <3>3. CASE SeededBy(t) # r
      <4>1. SeededBy(t) <= d.at
        BY <3>1, <3>3, <2>1, <2>6 DEF Revision
      <4>2. Coded(d.rows, t)
        BY <1>1, <4>1, <2>6 DEF Upgrading
      <4> QED BY <4>2, <2>2 DEF Coded
    <3> QED BY <3>2, <3>3
  <2>7. version <= e.at /\ rows_of \subseteq e.rows
    BY <2>1, <2>2 DEF Upgrading, Databases
  <2>8. Upgrading(e)
    BY <2>2, <2>3, <2>4, <2>5, <2>6, <2>7 DEF Upgrading
  <2> QED BY <1>1, <2>1, <2>2, <2>8
<1>2. CASE ~(d.ok /\ d.at < v)
  BY <1>2 DEF StepUp
<1> QED BY <1>1, <1>2

(* One revision downwards.                                                 *)
LEMMA StepDownKeeps ==
  ASSUME NEW v \in 0..5, version \in 0..5, rows_of \subseteq Seeded \X RowKind,
         NEW d, Downgrading(d)
  PROVE  /\ Downgrading(StepDown(d, v))
         /\ StepDown(d, v).ok =>
              d.ok /\ StepDown(d, v).at = IF d.at > v THEN d.at - 1 ELSE d.at
<1>1. CASE d.ok /\ d.at > v
  <2> DEFINE r == d.at
             e == Downgrade(d, r)
  <2>1. d \in Databases /\ r \in Revision /\ e = StepDown(d, v)
    BY <1>1 DEF Downgrading, Databases, Revision, StepDown
  <2>2. /\ e \in Databases /\ e.at = r - 1 /\ e.tables = d.tables \ Creates[r]
        /\ e.rows \subseteq d.rows
        /\ \A x \in d.rows \ e.rows :
             x[1] \in Creates[r] \/ (x[1] \in Seeds[r] /\ x[2] = "seed")
        /\ \A x \in e.rows : x[1] \notin Creates[r]
    BY <1>1, <2>1, DowngradeSays
  <2> HIDE DEF e
  <2>3. e.tables = TablesAt(r - 1)
    BY <2>1, <2>2, TablesGrow DEF Downgrading
  <2>4. RowsHaveTables(e)
    BY <2>2 DEF Downgrading, RowsHaveTables
  <2>5. ASSUME NEW x \in rows_of \ e.rows
        PROVE  x[1] \notin e.tables \/ (x[2] = "seed" /\ r - 1 < SeededBy(x[1]))
    <3>0. x[1] \in Seeded /\ SeededBy(x[1]) \in Revision
      BY SeededOnce
    <3>1. CASE x \notin d.rows
      BY <3>0, <3>1, <2>1, <2>2 DEF Downgrading, Revision
    <3>2. CASE x \in d.rows /\ x[1] \in Creates[r]
      BY <3>2, <2>2
    <3>3. CASE x \in d.rows /\ x[1] \in Seeds[r] /\ x[2] = "seed"
      <4>1. SeededBy(x[1]) = r
        BY <3>0, <3>3, <2>1, SeededOnce
      <4> QED BY <3>3, <4>1, <2>1 DEF Revision
    <3> QED BY <3>1, <3>2, <3>3, <2>2
  <2>6. e.at <= version /\ e.rows \subseteq rows_of
    BY <2>1, <2>2 DEF Downgrading, Databases, Revision
  <2>7. Downgrading(e)
    BY <2>2, <2>3, <2>4, <2>5, <2>6 DEF Downgrading
  <2> QED BY <1>1, <2>1, <2>2, <2>7
<1>2. CASE ~(d.ok /\ d.at > v)
  BY <1>2 DEF StepDown
<1> QED BY <1>1, <1>2

-----------------------------------------------------------------------------
(* The schema between commands *)

SchemaInv ==
  /\ SchemaTypeOK /\ SchemaWhole /\ DataKept
  /\ \A x \in rows_of : x[1] \in tables

(* A command begins with what it finds.                                    *)
LEMMA HereIsBoth == ASSUME SchemaInv PROVE Upgrading(Here) /\ Downgrading(Here)
<1>1. /\ Here \in Databases /\ Here.at = version /\ Here.tables = tables
      /\ Here.rows = rows_of
  BY DEF Here, Databases, SchemaInv, SchemaTypeOK
<1>2. version \in 0..5 /\ \A t \in Seeded : SeededBy(t) \in Revision
  BY SeededOnce DEF SchemaInv, SchemaTypeOK
<1> HIDE DEF Here
<1> QED
  BY <1>1, <1>2
  DEF Upgrading, Downgrading, RowsHaveTables, SchemaInv, SchemaWhole, Revision

(* At most five revisions reach v.                                         *)
LEMMA UpgradedSays ==
  ASSUME SchemaInv, NEW v \in 0..5, version <= v
  PROVE  Upgrading(Upgraded(v)) /\ (Upgraded(v).ok => Upgraded(v).at = v)
<1> DEFINE a == StepUp(Here, v)
           b == StepUp(a, v)
           c == StepUp(b, v)
           d == StepUp(c, v)
           e == StepUp(d, v)
           next(n) == IF n < v THEN n + 1 ELSE n
<1>0. version \in 0..5 /\ Here.at = version
  BY DEF SchemaInv, SchemaTypeOK, Here
<1>1. Upgrading(a) /\ (a.ok => a.at = next(version))
  BY <1>0, HereIsBoth, StepUpKeeps
<1>2. Upgrading(b) /\ (b.ok => b.at = next(next(version)))
  BY <1>0, <1>1, StepUpKeeps
<1>3. Upgrading(c) /\ (c.ok => c.at = next(next(next(version))))
  BY <1>0, <1>2, StepUpKeeps
<1>4. Upgrading(d) /\ (d.ok => d.at = next(next(next(next(version)))))
  BY <1>0, <1>3, StepUpKeeps
<1>5. Upgrading(e) /\ (e.ok => e.at = next(next(next(next(next(version))))))
  BY <1>0, <1>4, StepUpKeeps
<1>6. next(next(next(next(next(version))))) = v
  BY <1>0
<1> QED BY <1>5, <1>6 DEF Upgraded

(* And as many lead back.                                                  *)
LEMMA DowngradedSays ==
  ASSUME SchemaInv, NEW v \in 0..5, v <= version
  PROVE  Downgrading(Downgraded(v)) /\ (Downgraded(v).ok => Downgraded(v).at = v)
<1> DEFINE a == StepDown(Here, v)
           b == StepDown(a, v)
           c == StepDown(b, v)
           d == StepDown(c, v)
           e == StepDown(d, v)
           next(n) == IF n > v THEN n - 1 ELSE n
<1>0. version \in 0..5 /\ Here.at = version /\ rows_of \subseteq Seeded \X RowKind
  BY DEF SchemaInv, SchemaTypeOK, Here
<1>1. Downgrading(a) /\ (a.ok => a.at = next(version))
  BY <1>0, HereIsBoth, StepDownKeeps
<1>2. Downgrading(b) /\ (b.ok => b.at = next(next(version)))
  BY <1>0, <1>1, StepDownKeeps
<1>3. Downgrading(c) /\ (c.ok => c.at = next(next(next(version))))
  BY <1>0, <1>2, StepDownKeeps
<1>4. Downgrading(d) /\ (d.ok => d.at = next(next(next(next(version)))))
  BY <1>0, <1>3, StepDownKeeps
<1>5. Downgrading(e) /\ (e.ok => e.at = next(next(next(next(next(version))))))
  BY <1>0, <1>4, StepDownKeeps
<1>6. next(next(next(next(next(version))))) = v
  BY <1>0
<1> QED BY <1>5, <1>6 DEF Downgraded

(* The coded tables that an operator may have taken a code from.           *)
LEMMA CodesAre ==
  ASSUME SchemaInv
  PROVE  \A t \in Seeded : SeededBy(t) <= version /\ t \notin removed => Coded(rows_of, t)
BY DEF SchemaInv, DataKept, Coded

(* An upgrade that commits.                                                *)
LEMMA UpgradeKeeps ==
  ASSUME SchemaInv, NEW v \in 0..5, UpgradeTo(v)
  PROVE  SchemaInv' /\ version' = v /\ version <= v
<1> DEFINE d == Upgraded(v)
<1>1. version <= v /\ version \in 0..5
  BY DEF UpgradeTo, SchemaInv, SchemaTypeOK
<1>2. Upgrading(d) /\ d.ok /\ d.at = v
  BY <1>1, UpgradedSays DEF UpgradeTo, Commit
<1>3. /\ version' = v /\ tables' = d.tables /\ rows_of' = d.rows
      /\ in_use' = in_use \cap d.rows /\ mine' = mine
      /\ removed' = {t \in removed : SeededBy(t) <= version}
  BY <1>2 DEF UpgradeTo, Commit
<1> HIDE DEF d
<1>4. SchemaTypeOK'
  BY <1>2, <1>3
  DEF Upgrading, Databases, SchemaInv, SchemaTypeOK
<1>5. SchemaWhole' /\ \A x \in rows_of' : x[1] \in tables'
  BY <1>2, <1>3 DEF Upgrading, RowsHaveTables, SchemaWhole, TablesAt
<1>6. {x \in rows_of' : x[2] # "seed"} = mine'
  <2>1. {x \in rows_of : x[2] # "seed"} = mine
    BY DEF SchemaInv, DataKept
  <2> QED BY <1>2, <1>3, <2>1 DEF Upgrading
<1>7. ASSUME NEW t \in Seeded, SeededBy(t) <= version', t \notin removed'
      PROVE  Coded(rows_of', t)
  <2>1. SeededBy(t) \in Revision
    BY SeededOnce
  <2>2. CASE version < SeededBy(t)
    BY <1>2, <1>3, <1>7, <2>2 DEF Upgrading
  <2>3. CASE SeededBy(t) <= version
    <3>1. Coded(rows_of, t)
      BY <1>3, <1>7, <2>3, CodesAre
    <3> QED BY <1>2, <1>3, <3>1 DEF Upgrading, Coded
  <2> QED BY <1>1, <2>1, <2>2, <2>3 DEF Revision
<1>8. DataKept'
  BY <1>6, <1>7 DEF DataKept, Coded
<1> QED BY <1>1, <1>3, <1>4, <1>5, <1>8 DEF SchemaInv

(* A downgrade that commits.                                               *)
LEMMA DowngradeKeeps ==
  ASSUME SchemaInv, NEW v \in 0..5, DowngradeTo(v)
  PROVE  SchemaInv'
<1> DEFINE d == Downgraded(v)
<1>1. v < version /\ version \in 0..5
  BY DEF DowngradeTo, SchemaInv, SchemaTypeOK
<1>2. Downgrading(d) /\ d.ok /\ d.at = v
  BY <1>1, DowngradedSays DEF DowngradeTo, Commit
<1>3. /\ version' = v /\ tables' = d.tables /\ rows_of' = d.rows
      /\ in_use' = in_use \cap d.rows
      /\ mine' = {x \in mine : x[1] \in TablesAt(v)}
      /\ removed' = {t \in removed : SeededBy(t) <= v}
  BY <1>2 DEF DowngradeTo, Commit
<1> HIDE DEF d
<1>4. SchemaTypeOK'
  BY <1>2, <1>3
  DEF Downgrading, Databases, SchemaInv, SchemaTypeOK
<1>5. SchemaWhole' /\ \A x \in rows_of' : x[1] \in tables'
  BY <1>2, <1>3 DEF Downgrading, RowsHaveTables, SchemaWhole, TablesAt
<1>6. {x \in rows_of' : x[2] # "seed"} = mine'
  <2>1. {x \in rows_of : x[2] # "seed"} = mine
    BY DEF SchemaInv, DataKept
  <2>2. d.tables = TablesAt(v) /\ d.rows \subseteq rows_of
    BY <1>2 DEF Downgrading
  <2>3. ASSUME NEW x \in d.rows PROVE x[1] \in TablesAt(v)
    BY <1>2, <2>2 DEF Downgrading, RowsHaveTables
  <2>4. ASSUME NEW x \in mine, x[1] \in TablesAt(v) PROVE x \in d.rows /\ x[2] # "seed"
    BY <1>2, <2>1, <2>2, <2>4 DEF Downgrading
  <2> QED BY <1>3, <2>1, <2>2, <2>3, <2>4
<1>7. ASSUME NEW t \in Seeded, SeededBy(t) <= version', t \notin removed'
      PROVE  Coded(rows_of', t)
  <2>1. SeededBy(t) \in Revision
    BY SeededOnce
  <2>2. Coded(rows_of, t)
    BY <1>1, <1>3, <1>7, <2>1, CodesAre DEF Revision
  <2>3. PICK k \in {"seed", "sameCode"} : <<t, k>> \in rows_of
    BY <2>2 DEF Coded
  <2>4. t \in TablesAt(v)
    <3>1. t \in Seeds[SeededBy(t)] /\ t \in TablesAt(SeededBy(t))
      BY <2>1, SeededOnce, SeededAfterCreated
    <3> QED BY <1>3, <1>7, <2>1, <3>1, TablesMonotone DEF Revision
  <2>5. <<t, k>> \in d.rows
    <3>1. <<t, k>>[1] = t /\ d.at = v /\ d.tables = TablesAt(v)
      BY <1>2 DEF Downgrading
    <3>2. ~(v < SeededBy(t))
      BY <1>3, <1>7, <2>1 DEF Revision
    <3> QED BY <1>2, <2>3, <2>4, <3>1, <3>2 DEF Downgrading
  <2> QED BY <1>3, <2>3, <2>5 DEF Coded
<1>8. DataKept'
  BY <1>6, <1>7 DEF DataKept, Coded
<1> QED BY <1>4, <1>5, <1>8 DEF SchemaInv

(* What operators and the application do to the reference data.            *)
LEMMA EditsKeep ==
  ASSUME SchemaInv,
         \/ \E t \in Seeded, k \in RowKind : InsertRow(t, k)
         \/ \E x \in rows_of : DeleteRow(x) \/ UseRow(x)
  PROVE  SchemaInv'
<1>1. ASSUME NEW t \in Seeded, NEW k \in RowKind, InsertRow(t, k) PROVE SchemaInv'
  <2>1. SchemaTypeOK' /\ SchemaWhole' /\ \A x \in rows_of' : x[1] \in tables'
    BY <1>1 DEF InsertRow, SchemaInv, SchemaTypeOK, SchemaWhole, TablesAt
  <2>2. {x \in rows_of' : x[2] # "seed"} = mine'
    BY <1>1 DEF InsertRow, SchemaInv, DataKept
  <2>3. ASSUME NEW s \in Seeded, SeededBy(s) <= version', s \notin removed'
        PROVE  Coded(rows_of', s)
    <3>1. CASE s = t /\ k = "sameCode"
      BY <1>1, <3>1 DEF InsertRow, Coded
    <3>2. CASE s \notin removed
      BY <1>1, <2>3, <3>2, CodesAre DEF InsertRow, Coded
    <3> QED BY <1>1, <2>3, <3>1, <3>2 DEF InsertRow
  <2> QED BY <2>1, <2>2, <2>3 DEF SchemaInv, DataKept, Coded
<1>2. ASSUME NEW x \in rows_of, DeleteRow(x) PROVE SchemaInv'
  <2>0. x[1] \in Seeded
    BY DEF SchemaInv, SchemaTypeOK
  <2>1. SchemaTypeOK' /\ SchemaWhole' /\ \A y \in rows_of' : y[1] \in tables'
    BY <1>2, <2>0 DEF DeleteRow, SchemaInv, SchemaTypeOK, SchemaWhole, TablesAt
  <2>2. {y \in rows_of' : y[2] # "seed"} = mine'
    BY <1>2 DEF DeleteRow, SchemaInv, DataKept
  <2>3. ASSUME NEW s \in Seeded, SeededBy(s) <= version', s \notin removed'
        PROVE  Coded(rows_of', s)
    <3>1. Coded(rows_of, s)
      BY <1>2, <2>3, CodesAre DEF DeleteRow
    <3>2. PICK k \in {"seed", "sameCode"} : <<s, k>> \in rows_of
      BY <3>1 DEF Coded
    <3>3. <<s, k>> # x
      BY <1>2, <2>3 DEF DeleteRow
    <3> QED BY <1>2, <3>2, <3>3 DEF DeleteRow, Coded
  <2> QED BY <2>1, <2>2, <2>3 DEF SchemaInv, DataKept, Coded
<1>3. ASSUME NEW x \in rows_of, UseRow(x) PROVE SchemaInv'
  BY <1>3 DEF UseRow, SchemaInv, SchemaTypeOK, SchemaWhole, DataKept, TablesAt
<1> QED BY <1>1, <1>2, <1>3

(* Everything else leaves the schema alone.                                *)
LEMMA SchemaStands ==
  ASSUME SchemaInv, UNCHANGED schemaVars PROVE SchemaInv' /\ version' = version
BY DEF schemaVars, SchemaInv, SchemaTypeOK, SchemaWhole, DataKept, TablesAt

-----------------------------------------------------------------------------
(* The script                                                              *)

Current == [api |-> checkout, web |-> checkout, env |-> env]

(* What the step the script is at takes from those before it.              *)
Prepared ==
  /\ stage # "off" => exited = "none"
  /\ stage \in {"migrate", "up", "start", "wait", "verify"} =>
       image["api"] = checkout /\ image["web"] = checkout
  /\ stage \in {"up", "start", "wait", "verify"} =>
       version = HeadOf[checkout] /\ AlembicReads(env)
  /\ stage \in {"start", "wait", "verify"} => box = Current

(* StartedFit, in terms of revisions: migrations only add tables while a   *)
(* script runs.                                                            *)
Fit ==
  (box.api # 0 /\ ~by_hand) =>
    /\ Accepts(ApiSettings(box.env)) /\ Accepts(WorkerSettings(box.env))
    /\ box.api \in Commits /\ HeadOf[box.api] <= version

Placed == tip \in Commits /\ branch \in Commits /\ checkout \in Commits /\ env \in Env

DeployInv == Placed /\ Prepared /\ Fit /\ DoneMeansCurrent

(* Commits and their newest revisions.                                     *)
LEMMA CommitsAre ==
  /\ 1 \in Commits
  /\ \A c \in Commits : HeadOf[c] \in 1..5 /\ 1..c \subseteq Commits
BY DeployAssumption, SMTT(60) DEF Commits, Revision

(* A worker is given fewer of the variables: what the api accepts, it does *)
(* too.                                                                    *)
LEMMA WorkersAcceptToo ==
  ASSUME NEW e \in EnvFiles, Accepts(ApiSettings(e)) PROVE Accepts(WorkerSettings(e))
BY ZenonT(60) DEF EnvFiles, ApiSettings, WorkerSettings, Accepts, LogLevelIsStandard,
       WellFormed, RetryDelaysMakeSense, ProductionRequirements

(* The steps of the script that touch neither schema nor containers.       *)
LEMMA ScriptSteps ==
  ASSUME DeployInv, version \in 0..5,
         \/ Begin \/ Pull \/ Validate \/ Build \/ StartEnds \/ WaitReady
         \/ Verify \/ Verdict \/ Interrupt
  PROVE  DeployInv'
<1> USE DEF DeployInv, Placed, Prepared, Fit, DoneMeansCurrent, Current,
            schemaVars, git, stack, verify, Goes, Quits
<1>1. CASE Begin
  BY <1>1 DEF Begin
<1>2. CASE Pull
  BY <1>2 DEF Pull
<1>3. CASE Validate
  BY <1>3 DEF Validate
<1>4. CASE Build
  BY <1>4 DEF Build
<1>5. CASE StartEnds
  BY <1>5 DEF StartEnds
<1>6. CASE WaitReady
  BY <1>6 DEF WaitReady
<1>7. CASE Verify
  BY <1>7 DEF Verify
<1>8. CASE Verdict
  BY <1>8 DEF Verdict
<1>9. CASE Interrupt
  BY <1>9 DEF Interrupt
<1> QED BY <1>1, <1>2, <1>3, <1>4, <1>5, <1>6, <1>7, <1>8, <1>9

(* The migration ends at the revision of the image just built, or fails.   *)
LEMMA MigrateStep ==
  ASSUME DeployInv, SchemaInv, Migrate PROVE DeployInv' /\ SchemaInv'
<1> USE DEF DeployInv, Placed, Prepared, Fit, DoneMeansCurrent, Current,
            git, stack, verify, Goes, Quits
<1>1. CASE Quits("migrate") /\ UNCHANGED schemaVars
  BY <1>1, SchemaStands DEF Migrate
<1>2. CASE Migratable /\ UpgradeTo(HeadOf[image["api"]]) /\ Goes("up")
  <2>1. image["api"] = checkout /\ HeadOf[checkout] \in 0..5
    BY CommitsAre DEF Migrate
  <2>2. SchemaInv' /\ version' = HeadOf[checkout] /\ version <= HeadOf[checkout]
    BY <1>2, <2>1, UpgradeKeeps
  <2>3. version \in 0..5 /\ \A c \in Commits : HeadOf[c] \in 0..5
    BY CommitsAre DEF SchemaInv, SchemaTypeOK
  <2>4. Fit'
    BY <1>2, <2>2, <2>3 DEF Migrate
  <2>5. Placed' /\ Prepared' /\ DoneMeansCurrent'
    BY <1>2, <2>1, <2>2 DEF Migrate, Migratable
  <2> QED BY <2>2, <2>4, <2>5
<1> QED BY <1>1, <1>2 DEF Migrate

(* Containers are replaced by what was validated, built and migrated for.  *)
LEMMA UpStep ==
  ASSUME DeployInv, version \in 0..5, Up_d PROVE DeployInv'
<1> USE DEF DeployInv, Placed, Prepared, Current
<1>1. /\ box' = Current /\ by_hand' = FALSE /\ stage' = "start" /\ exited' = "none"
      /\ UNCHANGED <<tip, branch, checkout, env, image, version>>
  BY DEF Up_d, Replace, Target, Goes, git, schemaVars
<1>2. stage = "up" /\ version = HeadOf[checkout] /\ AlembicReads(env)
  BY DEF Up_d
<1>3. Accepts(ApiSettings(env)) /\ Accepts(WorkerSettings(env))
  BY <1>2, WorkersAcceptToo, DeployAssumption DEF AlembicReads
<1>4. HeadOf[checkout] <= version
  BY <1>2
<1>5. Fit'
  BY <1>1, <1>3, <1>4 DEF Fit
<1> QED BY <1>1, <1>2, <1>5 DEF Up_d, DoneMeansCurrent

(* Replacing by hand what has not changed replaces nothing.                *)
LEMMA ByHandStep ==
  ASSUME DeployInv, UpByHand PROVE DeployInv'
<1>1. Placed' /\ Prepared' /\ DoneMeansCurrent'
  BY DEF UpByHand, Aside, git, schemaVars, DeployInv, Placed, Prepared, DoneMeansCurrent
<1>2. CASE by_hand'
  BY <1>1, <1>2 DEF DeployInv, Fit
<1>3. CASE ~by_hand'
  <2>1. ~by_hand /\ ~Changed("api")
    BY <1>3 DEF UpByHand, Service
  <2>2. box.api = Target.api /\ box.env = Target.env
    BY <2>1 DEF Changed
  <2>3. box'.api = box.api /\ box'.env = box.env /\ version' = version
    BY <2>2 DEF UpByHand, Replace, Aside, schemaVars
  <2> QED BY <1>1, <2>1, <2>3 DEF DeployInv, Fit
<1> QED BY <1>1, <1>2, <1>3 DEF DeployInv

(* Edits and checkouts wait for the script; pushes do not touch it.        *)
LEMMA OtherSteps ==
  ASSUME DeployInv,
         \/ EditEnv \/ Checkout \/ Push
         \/ \E s \in Service : Start(s) \/ StartByHand(s) \/ BecomesHealthy(s) \/ Falls(s)
  PROVE  DeployInv'
<1> USE DEF DeployInv, Placed, Prepared, Fit, DoneMeansCurrent, Current,
            schemaVars, git, stack, verify, Aside
<1>1. CASE EditEnv
  BY <1>1 DEF EditEnv
<1>2. CASE Checkout
  BY <1>2, CommitsAre DEF Checkout
<1>3. CASE Push
  BY <1>3 DEF Push
<1>4. CASE \E s \in Service : Start(s) \/ StartByHand(s) \/ BecomesHealthy(s) \/ Falls(s)
  BY <1>4 DEF Start, StartByHand, BecomesHealthy, Falls
<1> QED BY <1>1, <1>2, <1>3, <1>4

(* Of all steps of the deployment only the migration changes the schema.   *)
LEMMA DeploySteps ==
  ASSUME DeployInv, SchemaInv, DeployNext PROVE DeployInv' /\ SchemaInv'
<1>0. version \in 0..5
  BY DEF SchemaInv, SchemaTypeOK
<1>1. CASE Migrate
  BY <1>1, MigrateStep
<1>2. CASE ~Migrate
  <2>1. UNCHANGED schemaVars
    BY <1>2
    DEF DeployNext, Begin, Pull, Validate, Build, Up_d, StartEnds, WaitReady, Verify,
        Verdict, Interrupt, EditEnv, Checkout, UpByHand, Push, Aside, Start,
        StartByHand, BecomesHealthy, Falls
  <2>2. DeployInv'
    BY <1>0, <1>2, ScriptSteps, UpStep, ByHandStep, OtherSteps DEF DeployNext
  <2> QED BY <2>1, <2>2, SchemaStands
<1> QED BY <1>1, <1>2

-----------------------------------------------------------------------------
(* Types                                                                   *)

GitTyped ==
  /\ tip \in Commits /\ branch \in Commits /\ checkout \in Commits
  /\ attached \in BOOLEAN /\ env \in Env

StackTyped ==
  /\ image \in [{"api", "web"} -> Commits \cup {0}]
  /\ box.api \in Commits \cup {0} /\ box.web \in Commits \cup {0} /\ box.env \in Env
  /\ health \in [Service -> {"none", "created", "starting", "healthy"}]
  /\ by_hand \in BOOLEAN

ScriptTyped ==
  /\ stage \in {"off", "checkout", "validate", "build", "migrate", "up", "start",
                "wait", "verify"}
  /\ flags \in [pull : BOOLEAN, verify : BOOLEAN]
  /\ exited \in {"none", "done", "interrupted", "checkout", "validate", "build",
                 "migrate", "up", "start", "wait", "verify"}
  /\ used_up \in [runs : 0..MaxRuns, edits : 0..MaxEdits]

VerifyTyped == look \in 1..7 /\ failing \in BOOLEAN /\ trouble \in BOOLEAN

(* The type invariant of Deploy, in groups of variables.                   *)
LEMMA DeployTyped == DeployTypeOK <=> GitTyped /\ StackTyped /\ ScriptTyped /\ VerifyTyped
<1>1. Len(Check) + 1 = 7
  BY DEF Check
<1> QED BY <1>1 DEF DeployTypeOK, GitTyped, StackTyped, ScriptTyped, VerifyTyped

(* What git and the operator of .env.prod change.                          *)
LEMMA GitTypes ==
  ASSUME GitTyped, DeployNext PROVE GitTyped'
<1>1. CASE Pull
  BY <1>1 DEF Pull, GitTyped
<1>2. CASE EditEnv
  BY <1>2 DEF EditEnv, GitTyped, git
<1>3. CASE Checkout
  BY <1>3, CommitsAre DEF Checkout, GitTyped
<1>4. CASE Push
  BY <1>4 DEF Push, GitTyped
<1>5. CASE UNCHANGED <<git, env>>
  BY <1>5 DEF git, GitTyped
<1>6. \/ Pull \/ EditEnv \/ Checkout \/ Push \/ UNCHANGED <<git, env>>
  BY DEF DeployNext, Begin, Validate, Build, Migrate, Up_d, StartEnds, WaitReady, Verify,
         Verdict, Interrupt, UpByHand, Start, StartByHand, BecomesHealthy, Falls
<1> QED BY <1>1, <1>2, <1>3, <1>4, <1>5, <1>6

(* What builds, Compose and the containers themselves change.              *)
LEMMA StackTypes ==
  ASSUME GitTyped, StackTyped, DeployNext PROVE StackTyped'
<1>1. CASE Build
  BY <1>1 DEF Build, GitTyped, StackTyped
<1>2. ASSUME Replace, image' = image, by_hand' \in BOOLEAN PROVE StackTyped'
  <2>1. /\ box'.api = image["api"] /\ box'.web = image["web"] /\ box'.env = env
        /\ health' = [s \in Service |-> IF Changed(s) THEN "created" ELSE health[s]]
    BY <1>2 DEF Replace, Target
  <2>2. health' \in [Service -> {"none", "created", "starting", "healthy"}]
    BY <2>1 DEF StackTyped
  <2> QED BY <1>2, <2>1, <2>2 DEF GitTyped, StackTyped
<1>3. CASE Up_d
  BY <1>2, <1>3 DEF Up_d
<1>4. CASE UpByHand
  <2>1. by_hand' \in BOOLEAN
    BY <1>4 DEF UpByHand, StackTyped
  <2> QED BY <1>2, <1>4, <2>1 DEF UpByHand
<1>5. ASSUME NEW s \in Service, Start(s) \/ StartByHand(s) \/ BecomesHealthy(s) \/ Falls(s)
      PROVE  StackTyped'
  BY <1>5 DEF Start, StartByHand, BecomesHealthy, Falls, StackTyped
<1>6. CASE UNCHANGED stack
  BY <1>6 DEF stack, StackTyped
<1>7. \/ Build \/ Up_d \/ UpByHand \/ UNCHANGED stack
      \/ \E s \in Service : Start(s) \/ StartByHand(s) \/ BecomesHealthy(s) \/ Falls(s)
  BY DEF DeployNext, Begin, Pull, Validate, Migrate, StartEnds, WaitReady, Verify,
         Verdict, Interrupt, EditEnv, Checkout, Push
<1> QED BY <1>1, <1>3, <1>4, <1>5, <1>6, <1>7

(* How far the script is, and how it ended.                                *)
LEMMA ScriptTypes ==
  ASSUME ScriptTyped, DeployNext PROVE ScriptTyped'
<1>1. CASE Begin
  BY <1>1, DeployAssumption DEF Begin, ScriptTyped
<1>2. ASSUME NEW to \in {"validate", "build", "migrate", "up", "start", "wait", "verify"},
             Goes(to)
      PROVE  ScriptTyped'
  BY <1>2 DEF Goes, ScriptTyped
<1>3. ASSUME NEW with \in {"done", "interrupted", "checkout", "validate", "build",
                           "migrate", "start", "wait", "verify"},
             Quits(with)
      PROVE  ScriptTyped'
  BY <1>3 DEF Quits, NoFlags, ScriptTyped
<1>4. CASE EditEnv
  BY <1>4, DeployAssumption DEF EditEnv, Aside, ScriptTyped
<1>5. ASSUME UNCHANGED <<stage, flags, used_up>>, exited' \in {exited, "none"}
      PROVE  ScriptTyped'
  BY <1>5 DEF ScriptTyped
<1>6. CASE Pull \/ Validate \/ Build \/ Migrate \/ Up_d
  BY <1>2, <1>3, <1>6 DEF Pull, Validate, Build, Migrate, Up_d
<1>7. CASE StartEnds \/ WaitReady \/ Verify \/ Verdict \/ Interrupt
  BY <1>2, <1>3, <1>7 DEF StartEnds, WaitReady, Verify, Verdict, Interrupt
<1>8. CASE Checkout \/ UpByHand \/ Push
  BY <1>5, <1>8 DEF Checkout, UpByHand, Push, Aside
<1>9. ASSUME NEW s \in Service, Start(s) \/ StartByHand(s) \/ BecomesHealthy(s) \/ Falls(s)
      PROVE  ScriptTyped'
  BY <1>5, <1>9 DEF Start, StartByHand, BecomesHealthy, Falls, Aside
<1> QED BY <1>1, <1>4, <1>6, <1>7, <1>8, <1>9 DEF DeployNext

(* The checks of the verification, one after another.                      *)
LEMMA VerifyTypes ==
  ASSUME VerifyTyped, DeployNext PROVE VerifyTyped'
<1> USE DEF VerifyTyped
<1>1. CASE Verify
  <2>1. Len(Check) = 6
    BY DEF Check
  <2>2. look' \in 1..7
    BY <1>1, <2>1 DEF Verify
  <2>3. trouble' \in BOOLEAN
    <3>1. trouble' = (trouble \/ ~Whole)
      BY <1>1, Zenon DEF Verify
    <3>2. (trouble \/ ~Whole) \in BOOLEAN
      BY Zenon
    <3> QED BY <3>1, <3>2, Zenon
  <2>4. failing' \in BOOLEAN
    <3>1. (failing \/ ~Passes(Check[look])) \in BOOLEAN
      BY Zenon
    <3>2. \/ failing' = FALSE \/ failing' = TRUE
          \/ failing' = (failing \/ ~Passes(Check[look]))
      BY <1>1, Zenon DEF Verify
    <3> QED BY <3>1, <3>2, Zenon
  <2> QED BY <2>2, <2>3, <2>4
<1>2. ~Verify =>
        /\ look' = 1 \/ look' = look
        /\ failing' = FALSE \/ failing' = failing
        /\ trouble' = FALSE \/ trouble' = trouble
  BY DEF DeployNext, Begin, Pull, Validate, Build, Migrate, Up_d, StartEnds, WaitReady,
         Verdict, Interrupt, EditEnv, Checkout, UpByHand, Push, Aside, Start,
         StartByHand, BecomesHealthy, Falls, verify
<1>3. ASSUME ~Verify PROVE VerifyTyped'
  <2>1. look' \in 1..7
    BY <1>2, <1>3
  <2>2. failing' \in BOOLEAN /\ trouble' \in BOOLEAN
    BY <1>2, <1>3, Zenon
  <2> QED BY <2>1, <2>2
<1> QED BY <1>1, <1>3

AllTyped ==
  GitTyped /\ StackTyped /\ ScriptTyped /\ VerifyTyped /\ focus \in Focus

(* So the deployment keeps its types in every reachable state.             *)
LEMMA AllTypedAlways == Spec => []AllTyped
<1>1. Init => AllTyped
  <2> SUFFICES ASSUME Init PROVE AllTyped
    OBVIOUS
  <2>1. NoBox.api = 0 /\ NoBox.web = 0 /\ NoBox.env \in Env
    <3>1. \E e \in Env : TRUE
      BY DEF Init, DeployInit
    <3>2. (CHOOSE e \in Env : TRUE) \in Env
      BY <3>1
    <3> QED BY <3>2 DEF NoBox
  <2>2. GitTyped /\ StackTyped
    BY <2>1, CommitsAre DEF Init, DeployInit, GitTyped, StackTyped
  <2>3. ScriptTyped
    BY DeployAssumption DEF Init, DeployInit, ScriptTyped, NoFlags
  <2>4. look = 1 /\ failing = FALSE /\ trouble = FALSE /\ focus \in Focus
    BY Zenon DEF Init, DeployInit
  <2>5. VerifyTyped
    <3>1. look \in 1..7
      BY <2>4
    <3>2. failing \in BOOLEAN /\ trouble \in BOOLEAN
      BY <2>4, Zenon
    <3> QED BY <3>1, <3>2 DEF VerifyTyped
  <2> QED BY <2>2, <2>3, <2>4, <2>5 DEF AllTyped
<1>2. AllTyped /\ [Next]_vars => AllTyped'
  <2> SUFFICES ASSUME AllTyped, [Next]_vars PROVE AllTyped'
    OBVIOUS
  <2>1. focus' = focus /\ (DeployNext \/ UNCHANGED deployVars)
    BY DEF Next, PoolMoves, HeartbeatMoves, ApiMoves, DeployMoves, SchemaMoves, RedisFails,
           RedisReturns, vars
  <2>2. CASE DeployNext
    BY <2>1, <2>2, GitTypes, StackTypes, ScriptTypes, VerifyTypes DEF AllTyped
  <2>3. CASE UNCHANGED deployVars
    <3> USE <2>3 DEF deployVars, AllTyped
    <3>1. GitTyped'
      BY DEF GitTyped
    <3>2. StackTyped'
      BY DEF StackTyped
    <3>3. ScriptTyped' /\ VerifyTyped'
      BY DEF ScriptTyped, VerifyTyped
    <3> QED BY <2>1, <3>1, <3>2, <3>3
  <2> QED BY <2>1, <2>2, <2>3
<1> QED BY <1>1, <1>2, PTL DEF Spec

-----------------------------------------------------------------------------
(* The behaviours of Ops                                                   *)

(* Where a behaviour follows another component, nothing is deployed.       *)
Inv ==
  /\ SchemaInv /\ DeployInv
  /\ focus # "deploy" => box.api = 0 /\ exited = "none" /\ stage = "off"

(* Before the first run there is neither a schema nor a container.         *)
LEMMA InitInv == Init => Inv
<1> SUFFICES ASSUME Init PROVE Inv
  OBVIOUS
<1> USE DEF Init, DeployInit
<1>1. SchemaInv
  <2>1. /\ version = 0 /\ tables = TablesAt(0) /\ in_use = {} /\ mine = {}
        /\ removed = {} /\ rows_of = {x \in Seeded \X {"seed"} : SeededBy(x[1]) <= 0}
    BY DEF SchemaInit
  <2>2. \A t \in Seeded : ~(SeededBy(t) <= 0)
    BY SeededOnce DEF Revision
  <2>3. rows_of = {}
    BY <2>1, <2>2
  <2>4. TablesAt(0) \subseteq TablesAt(5)
    BY TablesMonotone
  <2> QED
    BY <2>1, <2>2, <2>3, <2>4 DEF SchemaInv, SchemaTypeOK, SchemaWhole, DataKept
<1>2. DeployInv
  BY CommitsAre DEF DeployInv, Placed, Prepared, Fit, DoneMeansCurrent, NoBox
<1>3. box.api = 0 /\ exited = "none" /\ stage = "off"
  BY DEF NoBox
<1> QED BY <1>1, <1>2, <1>3 DEF Inv

(* Every step of Ops keeps the invariant.                                  *)
LEMMA NextInv == Inv /\ [Next]_vars => Inv'
<1> SUFFICES ASSUME Inv, [Next]_vars PROVE Inv'
  OBVIOUS
<1>1. CASE DeployMoves
  BY <1>1, DeploySteps DEF DeployMoves, Inv
<1>2. CASE SchemaMoves
  <2>1. SchemaInv'
    BY <1>2, UpgradeKeeps, DowngradeKeeps, EditsKeep DEF SchemaMoves, SchemaNext, Inv
  <2>2. UNCHANGED <<deployVars, focus>> /\ focus # "deploy"
    BY <1>2 DEF SchemaMoves
  <2>3. DeployInv'
    BY <2>2
    DEF Inv, DeployInv, Placed, Prepared, Fit, DoneMeansCurrent, Current, deployVars
  <2> QED BY <2>1, <2>2, <2>3 DEF Inv, deployVars
<1>3. CASE UNCHANGED <<deployVars, schemaVars, focus>>
  <2>1. SchemaInv' /\ version' = version
    BY <1>3, SchemaStands DEF Inv
  <2>2. DeployInv'
    BY <1>3, <2>1
    DEF Inv, DeployInv, Placed, Prepared, Fit, DoneMeansCurrent, Current, deployVars
  <2> QED BY <1>3, <2>1, <2>2 DEF Inv, deployVars
<1>4. QED
  BY <1>1, <1>2, <1>3
  DEF Next, PoolMoves, HeartbeatMoves, ApiMoves, RedisFails, RedisReturns, vars

(* So it holds in every reachable state.                                   *)
LEMMA AlwaysInv == Spec => []Inv
BY InitInv, NextInv, PTL DEF Spec

(* What has the revision of its code has the tables of its code.           *)
LEMMA InvMeansFit == Inv => StartedFit
<1> SUFFICES ASSUME Inv, box.api # 0, ~by_hand
             PROVE  /\ Accepts(ApiSettings(box.env)) /\ Accepts(WorkerSettings(box.env))
                    /\ TablesAt(HeadOf[box.api]) \subseteq tables
  BY DEF StartedFit
<1>1. /\ Accepts(ApiSettings(box.env)) /\ Accepts(WorkerSettings(box.env))
      /\ box.api \in Commits /\ HeadOf[box.api] <= version
  BY DEF Inv, DeployInv, Fit
<1>2. HeadOf[box.api] \in 0..5 /\ version \in 0..5 /\ tables = TablesAt(version)
  BY <1>1, CommitsAre DEF Inv, SchemaInv, SchemaTypeOK, SchemaWhole
<1> QED BY <1>1, <1>2, TablesMonotone

-----------------------------------------------------------------------------
(* The theorems *)

(* The database always has the tables of the revision that is recorded in  *)
(* it: no upgrade or downgrade, whatever fails in it, stops halfway        *)
(* (alembic/env.py runs a command in one transaction).                     *)
THEOREM SchemasAreWhole == Spec => []SchemaWhole
BY AlwaysInv, PTL DEF Inv, SchemaInv

(* No sequence of upgrades, downgrades and edits loses or overwrites an    *)
(* operator's row of reference data but with its table, or a seeded code   *)
(* that no operator removed (alembic/versions 0002, 0003 and 0005).        *)
THEOREM RowsAreKept == Spec => []DataKept
BY AlwaysInv, PTL DEF Inv, SchemaInv

(* Through failures, interrupts, rollbacks and edits of .env.prod, what    *)
(* deploy.sh started last has settings it accepts and the tables it needs. *)
THEOREM OnlyFitIsStarted == Spec => []StartedFit
BY AlwaysInv, InvMeansFit, PTL

(* When deploy.sh exits with 0, the stack is that of the checkout and of   *)
(* .env.prod, and so is the schema.                                        *)
THEOREM DoneIsCurrent == Spec => []DoneMeansCurrent
BY AlwaysInv, PTL DEF Inv, DeployInv
(* Every variable of every component keeps its type: counters stay         *)
(* natural, and pings, abandoned ones too, hold no more threads than the   *)
(* executor has (api/health.py, _check_database).                                       *)
THEOREM OpsTypeCorrect == Spec => []TypeOK
<1>1. HeartbeatInv /\ PoolInv => HeartbeatTypeOK /\ PoolTypeOK
  BY DEF HeartbeatInv, PoolInv
<1>2. MetricsInv /\ ThreadsOK => RedisTypeOK /\ ReadinessTypeOK
  <2> SUFFICES ASSUME MetricsInv, ThreadsOK PROVE RedisTypeOK /\ ReadinessTypeOK
    OBVIOUS
  <2>1. gauge \in Nat
    <3>1. IsFiniteSet(InProgress)
      BY ReadinessAssumption, FS_Subset DEF InProgress
    <3> QED BY <3>1, FS_CardinalityType DEF MetricsInv, GaugeIsInFlight
  <2>2. served \in [Class -> Nat]
    BY DEF MetricsInv, ApiTypeOK, CountedAsTold
  <2> QED
    BY <2>1, <2>2
    DEF MetricsInv, ApiTypeOK, ThreadsOK, RedisTypeOK, ReadinessTypeOK, Checks, Database,
        RedisWord, WorkerWord
<1>3. Inv => SchemaTypeOK
  BY DEF Inv, SchemaInv
<1>4. AllTyped => DeployTypeOK /\ focus \in Focus
  BY DeployTyped DEF AllTyped
<1>5. /\ HeartbeatInv /\ PoolInv /\ MetricsInv /\ ThreadsOK /\ Inv /\ AllTyped
      => TypeOK
  BY <1>1, <1>2, <1>3, <1>4 DEF TypeOK
<1> QED
  BY <1>5, HeartbeatAlways, PoolAlways, MetricsAlways, ThreadsAlways, AlwaysInv,
     AllTypedAlways, PTL
=============================================================================
