------------------------------ MODULE Settings ------------------------------
(***************************************************************************)
(* The configuration of the production stack: what core/config.py accepts, *)
(* what docker-compose.prod.yml makes of .env.prod, and what deploy.sh and *)
(* Alembic check of it themselves.  A value is the class of values that    *)
(* the checks tell apart.                                                  *)
(***************************************************************************)
EXTENDS Naturals

(* .env.prod.  An empty variable is one of those that must not be empty;   *)
(* the password goes into DATABASE_URL as it is; CORS is a set of entries. *)
EnvFiles ==
  [filled : BOOLEAN,
   secret : {"placeholder", "short", "real"},
   password : {"plain", "with %"},
   cors : SUBSET {"origin", "*", "malformed"},
   log_level : {"standard", "other"}]

(* _urls_and_origins_well_formed: "*" passes here.                         *)
WellFormed(s) ==
  /\ s.database_url # "malformed"
  /\ s.redis_url # "malformed"
  /\ "malformed" \notin s.cors

LogLevelIsStandard(s) == s.log_level = "standard"

(* The ranges of the fields, and _retry_delays_make_sense.                 *)
RetryDelaysMakeSense(s) ==
  /\ s.max_attempts >= 1
  /\ s.base_delay > 0 /\ s.max_delay > 0
  /\ s.max_delay >= s.base_delay

(* _production_requirements.  A Redis URL left to its default is "unset".  *)
ProductionRequirements(s) ==
  s.app_env = "production" =>
    /\ ~s.allow_insecure_secret
    /\ s.secret \notin {"placeholder", "short"}
    /\ s.database_url # "unset" /\ s.redis_url # "unset"
    /\ "*" \notin s.cors

Accepts(s) ==
  /\ LogLevelIsStandard(s) /\ WellFormed(s)
  /\ RetryDelaysMakeSense(s) /\ ProductionRequirements(s)

(* The environment of the worker container.  The variables it is not given *)
(* have their defaults.                                                    *)
WorkerSettings(e) ==
  [app_env |-> "production", allow_insecure_secret |-> FALSE,
   secret |-> e.secret, database_url |-> "good", redis_url |-> "good",
   cors |-> {"origin"}, log_level |-> e.log_level,
   max_attempts |-> 5, base_delay |-> 5, max_delay |-> 300]

(* The environment of the api container, and of a one-off run of it.       *)
ApiSettings(e) == [WorkerSettings(e) EXCEPT !.cors = e.cors]

(* Compose refuses every command while a variable marked :? is empty.      *)
ComposeReads(e) == e.filled /\ e.cors # {}

(* deploy.sh, step 2.  The placeholder is longer than 32 characters.       *)
Validates(e) == e.filled /\ e.cors # {} /\ e.secret # "short"

(* alembic/env.py: the settings, and a URL that ConfigParser takes, to     *)
(* which a % is the start of an interpolation.                             *)
AlembicReads(e) == Accepts(ApiSettings(e)) /\ e.password # "with %"
=============================================================================
