------------------------------- MODULE Deploy -------------------------------
(***************************************************************************)
(* scripts/deploy.sh, scripts/verify_deployment.py and the stack of        *)
(* docker-compose.prod.yml they act on.  One operator runs the script,     *)
(* interrupts it, and between runs follows docs/12-DEPLOYMENT.md: edits    *)
(* .env.prod, goes back to an older commit, or brings the stack up by hand *)
(* (12-DEPLOYMENT.md:183).  Meanwhile commits are pushed and containers    *)
(* fall and recover.  PostgreSQL runs throughout; Redis may not.           *)
(***************************************************************************)
EXTENDS Redis, Settings, Migrations, Sequences

CONSTANTS HeadOf,      \* HeadOf[c]: the newest revision commit c of main has
          Env,       \* contents .env.prod may be given, a subset of EnvFiles
          MaxRuns,   \* bound: runs of the script
          MaxEdits   \* bound: edits of .env.prod

ASSUME DeployAssumption ==
  /\ HeadOf \in Seq(Revision) /\ HeadOf # <<>>
  /\ \A c, d \in DOMAIN HeadOf : c <= d => HeadOf[c] <= HeadOf[d]
  /\ Env \subseteq EnvFiles
  /\ MaxRuns \in Nat /\ MaxEdits \in Nat

Commits == DOMAIN HeadOf
Service == {"api", "worker", "web", "caddy"}

VARIABLES
  tip,        \* origin/main
  branch,     \* main in the checkout
  checkout,   \* the commit that is checked out
  attached,   \* whether main is, or that commit detached
  env,        \* .env.prod
  image,      \* commits the tags ketabdaneh-api and -web were built from, 0: none
  box,        \* images and environment of the containers
  health,     \* of each container: "none", "created", "starting", "healthy"
  stage,      \* the step the script is at, "off" when none runs
  flags,      \* its flags, negated
  exited,     \* how the last run ended
  look,       \* verification: number of the next check
  failing,    \* verification: a check has failed
  trouble,    \* history: verification looked at a stack that was not whole
  by_hand,    \* history: the containers were last replaced by hand
  used_up     \* bound: runs and edits so far

deployVars == <<tip, branch, checkout, attached, env, image, box, health, stage,
                flags, exited, look, failing, trouble, by_hand, used_up>>

git    == <<tip, branch, checkout, attached>>
stack  == <<image, box, health, by_hand>>
verify == <<look, failing, trouble>>

NoBox == [api |-> 0, web |-> 0, env |-> CHOOSE e \in Env : TRUE]
Check == <<"redirect", "web", "health", "auth", "metrics", "docker">>

DeployTypeOK ==
  /\ tip \in Commits /\ branch \in Commits /\ checkout \in Commits
  /\ attached \in BOOLEAN /\ env \in Env
  /\ image \in [{"api", "web"} -> Commits \cup {0}]
  /\ box.api \in Commits \cup {0} /\ box.web \in Commits \cup {0} /\ box.env \in Env
  /\ health \in [Service -> {"none", "created", "starting", "healthy"}]
  /\ stage \in {"off", "checkout", "validate", "build", "migrate", "up", "start",
                "wait", "verify"}
  /\ flags \in [pull : BOOLEAN, verify : BOOLEAN]
  /\ exited \in {"none", "done", "interrupted", "checkout", "validate", "build",
                 "migrate", "up", "start", "wait", "verify"}
  /\ look \in 1..Len(Check) + 1
  /\ failing \in BOOLEAN /\ trouble \in BOOLEAN /\ by_hand \in BOOLEAN
  /\ used_up \in [runs : 0..MaxRuns, edits : 0..MaxEdits]

NoFlags == [pull |-> FALSE, verify |-> FALSE]

(* A server whose checkout is the first commit, before the first run.      *)
DeployInit ==
  /\ tip = 1 /\ branch = 1 /\ checkout = 1 /\ attached = TRUE
  /\ env \in Env
  /\ image = [i \in {"api", "web"} |-> 0] /\ box = NoBox
  /\ health = [s \in Service |-> "none"]
  /\ stage = "off" /\ flags = NoFlags /\ exited = "none"
  /\ look = 1 /\ failing = FALSE /\ trouble = FALSE /\ by_hand = FALSE
  /\ used_up = [runs |-> 0, edits |-> 0]

-----------------------------------------------------------------------------
(* The script.  set -e: what fails ends it.                                *)

Goes(to) == stage' = to /\ UNCHANGED <<flags, exited, used_up>>
Quits(with) ==
  /\ stage' = "off" /\ exited' = with /\ flags' = NoFlags
  /\ UNCHANGED used_up

Begin ==
  /\ stage = "off" /\ used_up.runs < MaxRuns
  /\ flags' \in [pull : BOOLEAN, verify : BOOLEAN]
  /\ stage' = "checkout" /\ exited' = "none"
  /\ used_up' = [used_up EXCEPT !.runs = @ + 1]
  /\ trouble' = FALSE
  /\ UNCHANGED <<git, env, stack, look, failing, schemaVars, redis>>

(* git pull --ff-only, which a detached checkout refuses.                  *)
Pull ==
  /\ stage = "checkout"
  /\ \/ flags.pull /\ attached /\ Goes("validate")
          /\ branch' = tip /\ checkout' = tip
     \/ flags.pull /\ ~attached /\ Quits("checkout") /\ UNCHANGED <<branch, checkout>>
     \/ ~flags.pull /\ Goes("validate") /\ UNCHANGED <<branch, checkout>>
  /\ UNCHANGED <<tip, attached, env, stack, verify, schemaVars, redis>>

Validate ==
  /\ stage = "validate"
  /\ IF Validates(env) THEN Goes("build") ELSE Quits("validate")
  /\ UNCHANGED <<git, env, stack, verify, schemaVars, redis>>

(* Mutant: the exit status of the second build is lost.                    *)
BuildAnyway ==
  /\ stage = "build" /\ Goes("migrate")
  /\ \E web \in {image["web"], checkout} : image' = [api |-> checkout, web |-> web]
  /\ UNCHANGED <<git, env, box, health, by_hand, verify, schemaVars, redis>>

(* docker compose build: a failure leaves any of the tags as they were.    *)
Build ==
  /\ stage = "build"
  /\ \E built \in SUBSET {"api", "web"} :
       /\ image' = [i \in {"api", "web"} |-> IF i \in built THEN checkout ELSE image[i]]
       /\ IF built = {"api", "web"} THEN Goes("migrate") ELSE Quits("build")
  /\ UNCHANGED <<git, env, box, health, by_hand, verify, schemaVars, redis>>

(* Alembic in a container of the image just built.  It reads the settings, *)
(* waits for Redis to be healthy like the api, and has to know the         *)
(* revision it finds.                                                      *)
Migratable ==
  /\ AlembicReads(env) /\ redis = "up"
  /\ version <= HeadOf[image["api"]]

(* Mutant: without set -e.                                                 *)
MigrateAnyway ==
  /\ stage = "migrate" /\ Goes("up")
  /\ \/ Migratable /\ UpgradeTo(HeadOf[image["api"]])
     \/ UNCHANGED schemaVars
  /\ UNCHANGED <<git, env, stack, verify, redis>>

(* alembic upgrade head.  It may also fail for a reason in the database.   *)
Migrate ==
  /\ stage = "migrate"
  /\ \/ Migratable /\ UpgradeTo(HeadOf[image["api"]]) /\ Goes("up")
     \/ Quits("migrate") /\ UNCHANGED schemaVars
  /\ UNCHANGED <<git, env, stack, verify, redis>>

-----------------------------------------------------------------------------
(* docker compose up -d: containers whose image or environment changed are *)
(* replaced, all at once; then they start one after another.               *)

Target == [api |-> image["api"], web |-> image["web"], env |-> env]

Changed(s) ==
  \/ health[s] = "none"
  \/ s \in {"api", "worker"} /\ <<box.api, box.env>> # <<Target.api, Target.env>>
  \/ s = "web" /\ box.web # Target.web

Replace ==
  /\ box' = Target
  /\ health' = [s \in Service |-> IF Changed(s) THEN "created" ELSE health[s]]

NeedsHealthy(s) ==
  CASE s = "web" -> {"api"} [] s = "caddy" -> {"api", "web"} [] OTHER -> {}

Startable(s) ==
  /\ \A d \in NeedsHealthy(s) : health[d] = "healthy"
  /\ s \in {"api", "worker"} => redis = "up"

Up_d ==
  /\ stage = "up"
  /\ Replace /\ by_hand' = FALSE /\ Goes("start")
  /\ UNCHANGED <<git, env, image, verify, schemaVars, redis>>

Start(s) ==
  /\ stage = "start"
  /\ health[s] = "created" /\ Startable(s)
  /\ health' = [health EXCEPT ![s] = IF s = "caddy" THEN "healthy" ELSE "starting"]
  /\ UNCHANGED <<git, env, image, box, by_hand, stage, flags, exited, used_up,
                 verify, schemaVars, redis>>

(* A dependency does not become healthy, and what needs it stays created.  *)
StartEnds ==
  /\ stage = "start"
  /\ \/ /\ \A s \in Service : health[s] # "created"
        /\ IF flags.verify THEN Goes("wait") ELSE Quits("done")
     \/ /\ \E s \in Service : ~Startable(s)
        /\ Quits("start")
  /\ UNCHANGED <<git, env, stack, verify, schemaVars, redis>>

-----------------------------------------------------------------------------
(* What answers at the edge                                                *)

Running(s) == health[s] \in {"starting", "healthy"}
Web_ok     == health["caddy"] = "healthy" /\ Running("web")
Api_ok     == health["caddy"] = "healthy" /\ Running("api") /\ Accepts(ApiSettings(box.env))
Ready_ok   == Api_ok /\ redis = "up"
Worker_ok  == health["worker"] = "healthy" /\ redis = "up"

Whole == Web_ok /\ Ready_ok /\ \A s \in Service : health[s] = "healthy"

(* The ports Caddy listens on answer their own protocol only: plain HTTP   *)
(* on the port of HTTPS gets a 400, on its own a redirect.                 *)
BaseUrl     == [scheme |-> "https", port |-> "https"]
HttpBase(u) == [u EXCEPT !.scheme = "http"]
Redirects(u) == health["caddy"] = "healthy" /\ u.scheme = "http" /\ u.port = "http"

(* What each check of main() needs to pass.                                *)
Passes(c) ==
  CASE c = "redirect" -> Redirects(HttpBase(BaseUrl))
    [] c = "web"      -> Web_ok
    [] c = "health"   -> Ready_ok
    [] c = "auth"     -> Api_ok
    [] c = "metrics"  -> Web_ok /\ Api_ok
    [] c = "docker"   -> Worker_ok /\ \A s \in Service : health[s] = "healthy"

(* Without a working Python there is nothing to run: the script is done.   *)
WaitReady ==
  /\ stage = "wait"
  /\ IF Ready_ok THEN Goes("verify") \/ Quits("done") ELSE Quits("wait")
  /\ UNCHANGED <<git, env, stack, verify, schemaVars, redis>>

(* A health check that gets no JSON, from a proxy without an API behind    *)
(* it, raises and ends the script; any other failure is noted.  A          *)
(* container that is starting may or may not answer.                       *)
Verify ==
  /\ stage = "verify" /\ look <= Len(Check)
  /\ trouble' = (trouble \/ ~Whole)
  /\ IF Check[look] = "health" /\ health["caddy"] = "healthy" /\ ~Api_ok
       THEN Quits("verify") /\ look' = 1 /\ failing' = FALSE
       ELSE /\ Goes("verify")
            /\ look' = look + 1
            /\ \/ failing' = (failing \/ ~Passes(Check[look]))
               \/ ~Whole /\ failing' = TRUE
  /\ UNCHANGED <<git, env, stack, schemaVars, redis>>

Verdict ==
  /\ stage = "verify" /\ look > Len(Check)
  /\ Quits(IF failing THEN "verify" ELSE "done")
  /\ look' = 1 /\ failing' = FALSE
  /\ UNCHANGED <<git, env, stack, trouble, schemaVars, redis>>

(* Control-C, or the end of the session.                                   *)
Interrupt ==
  /\ stage # "off" /\ Quits("interrupted")
  /\ look' = 1 /\ failing' = FALSE /\ trouble' = FALSE
  /\ UNCHANGED <<git, env, stack, schemaVars, redis>>

-----------------------------------------------------------------------------
(* The operator between runs, and the world                                *)

Aside ==
  /\ stage = "off" /\ exited' = "none" /\ trouble' = FALSE
  /\ UNCHANGED <<stage, flags, look, failing, schemaVars, redis>>

EditEnv ==
  /\ Aside /\ used_up.edits < MaxEdits
  /\ env' \in Env \ {env}
  /\ used_up' = [used_up EXCEPT !.edits = @ + 1]
  /\ UNCHANGED <<git, stack>>

(* git checkout of an older commit, or of main.                            *)
Checkout ==
  /\ Aside
  /\ \/ checkout' \in 1..branch /\ attached' = FALSE
     \/ checkout' = branch /\ attached' = TRUE
  /\ <<checkout, attached>>' # <<checkout, attached>>
  /\ UNCHANGED <<tip, branch, env, stack, used_up>>

(* docker compose up -d by hand, after an edit of .env.prod.  Without      *)
(* images it would build them; that is left to the script.                 *)
UpByHand ==
  /\ Aside /\ ComposeReads(env) /\ image["api"] # 0 /\ image["web"] # 0
  /\ Replace
  /\ by_hand' = (by_hand \/ \E s \in Service : Changed(s))
  /\ UNCHANGED <<git, env, image, used_up>>

StartByHand(s) ==
  /\ Aside /\ health[s] = "created" /\ Startable(s)
  /\ health' = [health EXCEPT ![s] = IF s = "caddy" THEN "healthy" ELSE "starting"]
  /\ UNCHANGED <<git, env, image, box, by_hand, used_up>>

Push ==
  /\ tip + 1 \in Commits /\ tip' = tip + 1
  /\ UNCHANGED <<branch, checkout, attached, env, stack, stage, flags, exited, verify,
                 used_up, schemaVars, redis>>

(* A container that can run becomes healthy.                               *)
BecomesHealthy(s) ==
  /\ health[s] = "starting"
  /\ s = "api" => Accepts(ApiSettings(box.env))
  /\ s = "worker" => Accepts(WorkerSettings(box.env)) /\ redis = "up"
  /\ health' = [health EXCEPT ![s] = "healthy"]
  /\ UNCHANGED <<git, env, image, box, by_hand, stage, flags, exited, used_up,
                 verify, schemaVars, redis>>

(* A container falls; its restart policy starts the same container again.  *)
Falls(s) ==
  /\ health[s] = "healthy"
  /\ health' = [health EXCEPT ![s] = "starting"]
  /\ UNCHANGED <<git, env, image, box, by_hand, stage, flags, exited, used_up,
                 verify, schemaVars, redis>>

DeployNext ==
  \/ Begin \/ Pull \/ Validate \/ Build \/ Migrate \/ Up_d \/ StartEnds
  \/ WaitReady \/ Verify \/ Verdict \/ Interrupt
  \/ EditEnv \/ Checkout \/ UpByHand \/ Push
  \/ \E s \in Service : Start(s) \/ StartByHand(s) \/ BecomesHealthy(s) \/ Falls(s)

-----------------------------------------------------------------------------
(* Properties *)

(* "Fail closed" and "migrate, then restart" across failures, interrupts,  *)
(* rollbacks and edits: containers that the script put there last have     *)
(* settings the application accepts and the tables their code was written  *)
(* for (docs/12-DEPLOYMENT.md:494).                                        *)
StartedFit ==
  (box.api # 0 /\ ~by_hand) =>
    /\ Accepts(ApiSettings(box.env)) /\ Accepts(WorkerSettings(box.env))
    /\ TablesAt(HeadOf[box.api]) \subseteq tables

(* A run that exits with 0 leaves containers of the commit and the         *)
(* .env.prod that are there, and their schema, in the database.            *)
DoneMeansCurrent ==
  exited = "done" =>
    /\ box = [api |-> checkout, web |-> checkout, env |-> env]
    /\ version = HeadOf[checkout]

(* deploy.sh runs the verification as its last step and fails loudly       *)
(* (deploy.sh:12, docs/12-DEPLOYMENT.md:363): it fails for something that  *)
(* was wrong with the stack.                                               *)
FailureMeansTrouble == exited = "verify" => trouble
=============================================================================
