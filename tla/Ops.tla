--------------------------------- MODULE Ops ---------------------------------
(***************************************************************************)
(* What surrounds the business of the application: the enqueue service's   *)
(* pool, the workers' heartbeat, the health endpoints, the deployment      *)
(* script with its stack, and the migrations.  They share nothing but      *)
(* Redis, which none of them changes and which fails under all of them at  *)
(* once, and the schema, which the deployment migrates.  A behaviour       *)
(* therefore follows one of them (focus): the steps of the others commute  *)
(* with its steps.  The schema has a focus of its own for what operators   *)
(* do to it by hand.                                                       *)
(***************************************************************************)
EXTENDS EnqueuePool, Heartbeat, Readiness, Deploy

VARIABLE focus  \* the component the behaviour follows

vars == <<redis, poolVars, heartbeatVars, apiVars, deployVars, schemaVars, focus>>

Focus == {"pool", "heartbeat", "api", "deploy", "schema"}

TypeOK ==
  /\ RedisTypeOK
  /\ PoolTypeOK /\ HeartbeatTypeOK /\ ReadinessTypeOK
  /\ DeployTypeOK /\ SchemaTypeOK
  /\ focus \in Focus

Init ==
  /\ RedisInit /\ PoolInit /\ HeartbeatInit /\ ReadinessInit
  /\ DeployInit /\ SchemaInit(0)
  /\ focus \in Focus
  /\ focus # "pool" => cache = NoPool
  /\ focus # "deploy" => env = NoBox.env

PoolMoves ==
  /\ focus = "pool"
  /\ \E t \in Task : PoolStep(t)
  /\ UNCHANGED <<heartbeatVars, apiVars, deployVars, schemaVars, focus>>

HeartbeatMoves ==
  /\ focus = "heartbeat"
  /\ HeartbeatNext
  /\ UNCHANGED <<poolVars, apiVars, deployVars, schemaVars, focus>>

ApiMoves ==
  /\ focus = "api"
  /\ ReadinessNext
  /\ UNCHANGED <<poolVars, heartbeatVars, deployVars, schemaVars, focus>>

DeployMoves ==
  /\ focus = "deploy"
  /\ DeployNext
  /\ UNCHANGED <<poolVars, heartbeatVars, apiVars, focus>>

SchemaMoves ==
  /\ focus = "schema"
  /\ SchemaNext
  /\ UNCHANGED <<redis, poolVars, heartbeatVars, apiVars, deployVars, focus>>

RedisFails ==
  /\ Fails
  /\ PoolsCut /\ KeyMayBeLost /\ RedisSeen
  /\ UNCHANGED <<deployVars, schemaVars, focus>>

RedisReturns ==
  /\ Returns
  /\ RedisSeen
  /\ UNCHANGED <<poolVars, heartbeatVars, deployVars, schemaVars, focus>>

Next ==
  \/ PoolMoves \/ HeartbeatMoves \/ ApiMoves \/ DeployMoves \/ SchemaMoves
  \/ RedisFails \/ RedisReturns

Spec == Init /\ [][Next]_vars /\ ReadinessFairness
=============================================================================
