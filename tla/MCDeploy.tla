------------------------------ MODULE MCDeploy ------------------------------
(* A small instance of Deploy on its own, for the last step of the script. *)
EXTENDS Deploy

OneHead == <<5>>

GoodEnv == [filled |-> TRUE, secret |-> "real", password |-> "plain",
            cors |-> {"origin"}, log_level |-> "standard"]
OneEnv == {GoodEnv}

Init == RedisInit /\ DeployInit /\ SchemaInit(0)

Next ==
  \/ DeployNext
  \/ (Fails \/ Returns) /\ UNCHANGED <<deployVars, schemaVars>>

Spec == Init /\ [][Next]_<<redis, deployVars, schemaVars>>
=============================================================================
