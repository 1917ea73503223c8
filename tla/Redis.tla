-------------------------------- MODULE Redis --------------------------------
(* The one Redis that the enqueue service, the workers and the health      *)
(* checks connect to: what they know of it is whether it answers.          *)
VARIABLE redis  \* "up" or "down"

RedisTypeOK == redis \in {"up", "down"}
RedisInit == redis = "up"

Fails   == redis = "up" /\ redis' = "down"
Returns == redis = "down" /\ redis' = "up"
=============================================================================
