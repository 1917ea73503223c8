-------------------------------- MODULE MCOps --------------------------------
(* A small instance of Ops and of the modules it is composed of.           *)
EXTENDS Ops

CONSTANTS t1, t2, w1, w2, r1, r2

TwoTasks == {t1, t2}
TwoWorkers == {w1, w2}
TwoReqs == {r1, r2}

(* The second commit of main brings a migration.                           *)
TwoHeads == <<4, 5>>

GoodEnv == [filled |-> TRUE, secret |-> "real", password |-> "plain",
            cors |-> {"origin"}, log_level |-> "standard"]
(* One .env.prod for each step that is the first to notice what is wrong:  *)
(* none, the script, the settings, Alembic.                                *)
FewEnvs == {GoodEnv, [GoodEnv EXCEPT !.secret = "short"],
            [GoodEnv EXCEPT !.cors = {"*"}], [GoodEnv EXCEPT !.password = "with %"]}
=============================================================================
