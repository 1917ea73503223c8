----------------------------- MODULE EnqueuePool -----------------------------
(***************************************************************************)
(* The Redis pool BackgroundNotificationService keeps (worker/service.py): *)
(* coroutines of one event loop create it, use it, drop it after a failure *)
(* and close it, and another coroutine may run at every await.  What an    *)
(* enqueue does to the queue is module Delivery's subject.                 *)
(***************************************************************************)
EXTENDS Redis, Naturals, FiniteSets

CONSTANTS Task,      \* coroutines that use one service
          MaxPools,  \* bound: pools created, numbered in the order of creation
          MaxCloses  \* bound: calls of close()

ASSUME PoolAssumption ==
  IsFiniteSet(Task) /\ MaxPools \in Nat /\ MaxCloses \in Nat

Pool   == 1..MaxPools
NoPool == 0              \* None

VARIABLES
  cache,    \* self._pool
  at,       \* where each coroutine awaits
  using,    \* the local variable pool of an enqueue, the pool a close closes
  cut,      \* coroutines whose connection broke while they waited
  open,     \* pools that hold connections
  made,     \* history: how many pools have been created or injected
  failedOn, \* history: pools an enqueue failed on
  lost,     \* history: races lost, failed enqueues, calls of close()
  closed    \* history: a close() ended; no call ran during it or began since

poolVars == <<cache, at, using, cut, open, made, failedOn, lost, closed>>

InFlight == {t \in Task : at[t] # "idle"}
Used     == {using[t] : t \in Task}
Losses   == lost.races + lost.failures + lost.closes

PoolTypeOK ==
  /\ cache \in Pool \cup {NoPool}
  /\ at \in [Task -> {"idle", "connecting", "enqueueing", "closing", "closed"}]
  /\ using \in [Task -> Pool \cup {NoPool}]
  /\ cut \subseteq Task
  /\ made \in 0..MaxPools /\ open \subseteq 1..made /\ failedOn \subseteq 1..made
  /\ lost \in [races : Nat, failures : Nat, closes : Nat]
  /\ closed \in {"no", "closing", "yes"}

(* The constructor takes an existing pool, or none.                        *)
PoolInit ==
  /\ made \in 0..1 /\ made <= MaxPools
  /\ cache = made
  /\ at = [t \in Task |-> "idle"] /\ using = [t \in Task |-> NoPool]
  /\ cut = {} /\ failedOn = {}
  /\ open = 1..made
  /\ lost = [races |-> 0, failures |-> 0, closes |-> 0]
  /\ closed = "no"

Moves(t, where, pool) ==
  /\ at' = [at EXCEPT ![t] = where]
  /\ using' = [using EXCEPT ![t] = pool]
  /\ cut' = cut \ {t}

-----------------------------------------------------------------------------
(* enqueue_notification: with a pool in the cache the coroutine goes on to *)
(* enqueue_job without a pause; otherwise it awaits create_pool first.     *)
BeginEnqueue(t) ==
  /\ at[t] = "idle"
  /\ IF cache = NoPool THEN Moves(t, "connecting", NoPool)
                       ELSE Moves(t, "enqueueing", cache)
  /\ closed' = "no"
  /\ UNCHANGED <<redis, cache, open, made, failedOn, lost>>

(* create_pool answers: the result is cached whatever the cache holds now. *)
Connected(t) ==
  /\ at[t] = "connecting" /\ redis = "up"
  /\ made < MaxPools /\ made' = made + 1
  /\ cache' = made' /\ open' = open \cup {made'}
  /\ Moves(t, "enqueueing", made')
  /\ lost' = IF cache = NoPool THEN lost ELSE [lost EXCEPT !.races = @ + 1]
  /\ UNCHANGED <<redis, failedOn, closed>>

(* create_pool gives up: NotificationQueueError, the cache stays.          *)
ConnectFails(t) ==
  /\ at[t] = "connecting" /\ (redis = "down" \/ t \in cut)
  /\ Moves(t, "idle", NoPool)
  /\ UNCHANGED <<redis, cache, open, made, failedOn, lost, closed>>

(* enqueue_job answers.  A pool without connections opens one: aclose()    *)
(* does not disable it.                                                    *)
EnqueueEnds(t) ==
  /\ at[t] = "enqueueing" /\ redis = "up"
  /\ open' = open \cup {using[t]}
  /\ Moves(t, "idle", NoPool)
  /\ UNCHANGED <<redis, cache, made, failedOn, lost, closed>>

(* Mutant: the cache is kept.                                              *)
EnqueueFailsKeeping(t) ==
  /\ at[t] = "enqueueing" /\ (redis = "down" \/ t \in cut)
  /\ failedOn' = failedOn \cup {using[t]}
  /\ lost' = [lost EXCEPT !.failures = @ + 1]
  /\ Moves(t, "idle", NoPool)
  /\ UNCHANGED <<redis, cache, open, made, closed>>

(* enqueue_job raises: the cache is emptied, whichever pool it holds now,  *)
(* and nothing is closed.                                                  *)
EnqueueFails(t) ==
  /\ at[t] = "enqueueing" /\ (redis = "down" \/ t \in cut)
  /\ cache' = NoPool
  /\ failedOn' = failedOn \cup {using[t]}
  /\ lost' = [lost EXCEPT !.failures = @ + 1]
  /\ Moves(t, "idle", NoPool)
  /\ UNCHANGED <<redis, open, made, closed>>

(* Mutant: the handler catches BaseException and so drops the pool here.   *)
CancelDropping(t) ==
  /\ at[t] \in {"connecting", "enqueueing"}
  /\ cache' = NoPool
  /\ Moves(t, "idle", NoPool)
  /\ UNCHANGED <<redis, open, made, failedOn, lost, closed>>

(* The caller is cancelled: CancelledError is no Exception, so neither     *)
(* handler runs.                                                           *)
Cancel(t) ==
  /\ at[t] \in {"connecting", "enqueueing"}
  /\ Moves(t, "idle", NoPool)
  /\ UNCHANGED <<redis, cache, open, made, failedOn, lost, closed>>

-----------------------------------------------------------------------------
(* close(): aclose() breaks the pool's connections, also those in use, and *)
(* only when it has returned is the cache emptied.                         *)

BeginClose(t) ==
  /\ at[t] = "idle" /\ lost.closes < MaxCloses
  /\ cache # NoPool
  /\ Moves(t, "closing", cache)
  /\ lost' = [lost EXCEPT !.closes = @ + 1]
  /\ closed' = IF InFlight = {} THEN "closing" ELSE "no"
  /\ UNCHANGED <<redis, cache, open, made, failedOn>>

Aclose(t) ==
  /\ at[t] = "closing"
  /\ open' = open \ {using[t]}
  /\ at' = [at EXCEPT ![t] = "closed"]
  /\ cut' = cut \cup {u \in Task : at[u] = "enqueueing" /\ using[u] = using[t]}
  /\ UNCHANGED <<redis, cache, using, made, failedOn, lost, closed>>

(* Mutant: the closed pool stays in the cache.                             *)
EndCloseKeeping(t) ==
  /\ at[t] = "closed"
  /\ Moves(t, "idle", NoPool)
  /\ closed' = IF closed = "closing" THEN "yes" ELSE closed
  /\ UNCHANGED <<redis, cache, open, made, failedOn, lost>>

EndClose(t) ==
  /\ at[t] = "closed"
  /\ cache' = NoPool
  /\ Moves(t, "idle", NoPool)
  /\ closed' = IF closed = "closing" THEN "yes" ELSE closed
  /\ UNCHANGED <<redis, open, made, failedOn, lost>>

PoolStep(t) ==
  \/ BeginEnqueue(t) \/ Connected(t) \/ ConnectFails(t)
  \/ EnqueueEnds(t) \/ EnqueueFails(t) \/ Cancel(t)
  \/ BeginClose(t) \/ Aclose(t) \/ EndClose(t)

(* Redis goes away: every connection breaks.                               *)
PoolsCut ==
  /\ open' = {}
  /\ cut' = InFlight
  /\ UNCHANGED <<cache, at, using, made, failedOn, lost, closed>>

-----------------------------------------------------------------------------
(* Properties *)

(* The comment at service.py:127: a dead connection must not poison later  *)
(* enqueues.  A pool an enqueue failed on is never in the cache again,     *)
(* however creations, failures and closes of other coroutines interleave.  *)
NoPoison == cache \notin failedOn

(* Nothing closes a pool that leaves the cache by a lost race or a failed  *)
(* enqueue, so connections pile up with those.  With nothing else: each    *)
(* lost race, failed enqueue and close() costs at most one pool, and every *)
(* other call, cancelled or not, leaves the cached pool where it is.       *)
DiscardsExplained == Cardinality((1..made) \ {cache}) <= Losses

(* close() releases everything if it has the service for itself and no     *)
(* pool was discarded before: nothing is cached and no connection is left. *)
CleanShutdown ==
  (closed = "yes" /\ lost.races + lost.failures = 0 /\ lost.closes = 1) =>
    cache = NoPool /\ open = {}
=============================================================================
