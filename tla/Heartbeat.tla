------------------------------ MODULE Heartbeat ------------------------------
(***************************************************************************)
(* The sign of life of the notification workers: one key in Redis, shared  *)
(* by all of them, that arq sets every health_check_interval with a time   *)
(* to live a little longer and deletes when a worker stops in order.  The  *)
(* loop that does so is arq's and modelled from how worker.py configures   *)
(* it.  Time is counted in ticks.                                          *)
(***************************************************************************)
EXTENDS Redis, Naturals

CONSTANTS Worker,    \* worker processes
          Interval,  \* health_check_interval, in ticks
          TTL        \* time to live of the key: arq's interval + 1 s

ASSUME HeartbeatAssumption ==
  /\ Interval \in Nat /\ Interval >= 1
  /\ TTL \in Nat /\ TTL > Interval

VARIABLES
  key,      \* ticks until the key expires, 0: there is none
  running,  \* workers whose process runs
  due,      \* ticks until a worker sets the key again
  idle,     \* history: ticks since a worker ran, at most TTL
  wiped     \* history: ticks since the key was deleted or lost, at most TTL

heartbeatVars == <<key, running, due, idle, wiped>>

HeartbeatTypeOK ==
  /\ key \in 0..TTL
  /\ running \subseteq Worker
  /\ due \in [Worker -> 0..Interval]
  /\ idle \in 0..TTL /\ wiped \in 0..TTL

HeartbeatInit ==
  /\ key = 0
  /\ running = {} /\ due = [w \in Worker |-> 0]
  /\ idle = TTL /\ wiped = TTL

(* python -m app.worker; arq connects to Redis before anything else.       *)
StartWorker(w) ==
  /\ w \notin running /\ redis = "up"
  /\ running' = running \cup {w}
  /\ due' = [due EXCEPT ![w] = 0]
  /\ idle' = 0
  /\ UNCHANGED <<redis, key, wiped>>

Beat(w) ==
  /\ w \in running /\ due[w] = 0 /\ redis = "up"
  /\ key' = TTL
  /\ due' = [due EXCEPT ![w] = Interval]
  /\ UNCHANGED <<redis, running, idle, wiped>>

Ends(w) ==
  /\ w \in running
  /\ running' = running \ {w}
  /\ due' = [due EXCEPT ![w] = 0]

(* SIGKILL, or a poll that raises because Redis is gone.                   *)
CrashWorker(w) ==
  /\ Ends(w)
  /\ UNCHANGED <<redis, key, idle, wiped>>

(* SIGTERM: arq deletes the key, also when another worker lives.           *)
StopWorker(w) ==
  /\ Ends(w) /\ redis = "up"
  /\ key' = 0 /\ wiped' = 0
  /\ UNCHANGED <<redis, idle>>

(* Redis keeps nothing when it stops; behind a network fault it keeps all. *)
KeyMayBeLost ==
  /\ \/ key > 0 /\ key' = 0 /\ wiped' = 0
     \/ UNCHANGED <<key, wiped>>
  /\ UNCHANGED <<running, due, idle>>

Less(n) == IF n > 0 THEN n - 1 ELSE 0
More(n) == IF n < TTL THEN n + 1 ELSE n

(* Mutant: the key has no time to live.                                    *)
TickForever ==
  /\ \A w \in running : due[w] > 0 /\ redis = "up"
  /\ key' = key
  /\ due' = [w \in Worker |-> Less(due[w])]
  /\ idle' = IF running = {} THEN More(idle) ELSE 0
  /\ wiped' = More(wiped)
  /\ UNCHANGED <<redis, running>>

(* A tick.  Workers beat in time, and none outlives a tick without Redis.  *)
Tick ==
  /\ \A w \in running : due[w] > 0 /\ redis = "up"
  /\ key' = Less(key)
  /\ due' = [w \in Worker |-> Less(due[w])]
  /\ idle' = IF running = {} THEN More(idle) ELSE 0
  /\ wiped' = More(wiped)
  /\ UNCHANGED <<redis, running>>

HeartbeatNext ==
  \/ \E w \in Worker : StartWorker(w) \/ Beat(w) \/ CrashWorker(w) \/ StopWorker(w)
  \/ Tick

(* What client.exists(WORKER_HEALTH_KEY) tells a reader.                   *)
KeyExists == key > 0

-----------------------------------------------------------------------------
(* Properties *)

(* The key is taken for a live worker (health.py:125).  It proves less: a  *)
(* worker ran less than TTL ticks ago, and the longer none has run, the    *)
(* sooner the key expires.                                                 *)
KeyMeansRecentWorker == KeyExists => key + idle <= TTL

(* No key is taken for no worker (worker_healthcheck.py:7).  A worker that *)
(* has set it and runs has lost it only because, since then, another one   *)
(* stopped in order or Redis lost its data.                                *)
MissingKeyExplained ==
  \A w \in running :
    (due[w] > 0 /\ ~KeyExists) => wiped <= Interval - due[w]

(* Both: what the key proves and what its absence proves.                  *)
HeartbeatExplained == KeyMeansRecentWorker /\ MissingKeyExplained
=============================================================================
