# Ketabdaneh: a verification project

TLA+ modules, TLC runs and TLAPS proofs about the Ketabdaneh monorepo: a FastAPI
backend with a notification worker (`src/apps/api`), a Next.js web application
(`src/apps/web`) and its deployment (`src/scripts`, `docker-compose.prod.yml`).
Paths below are relative to `src/`.

## 1. Inventory

| Component | State it keeps | Operations | Talks to | What makes it correct |
|---|---|---|---|---|
| Background delivery (`app/worker`) | Redis: payload keys, the queue's sorted set, retry counters, in-progress keys; per worker process: the runs | `enqueue_notification`, `deliver_notification`, start-up, shutdown; arq's poll, claim, finish, cancel | Redis, provider call | one run at a time, nothing dropped, bounded sends, explained duplicates, a final verdict for every job |
| Provider call (`app/notifications`) | none | `send`, `_deliver`, `send_bot_api_message` | Telegram and Bale Bot APIs | each HTTP outcome is classified once, as success, permanent or retryable |
| Enqueue service's pool (`app/worker/service.py`) | the cached Redis pool | `_get_pool`, drop on error, `close` | Redis | no leaked, closed or wrongly dropped pool |
| Readiness and heartbeat (`app/api/health.py`, `worker_healthcheck.py`) | arq's heartbeat key | readiness checks, container health check | Redis, PostgreSQL | "worker alive" follows the workers within the key's TTL |
| Accounts and authorization (`services/auth.py`, `services/authz.py`, CLIs) | users, application roles, grants | login, `/me`, permission check, `create_user`, `assign_role` | PostgreSQL | unique names, no half-made account, decisions on current grants |
| Persons, events, assignments (`app/api`, `app/services`) | business tables | list, read, create | PostgreSQL | references exist, a create is all or nothing |
| Web login session (`lib/auth`, `lib/api/client.ts`, `AuthGate`, `LoginForm`) | `localStorage` token shared by tabs; per tab: user, isLoading, requests in flight | restore, login, logout, 401 handling, redirects | the API | logout sticks, cleared tokens stay cleared, no redirect loop, no dead end |
| Web screens and forms | lists and form states | create, refresh, retry | the API | what is shown follows what was stored |
| Dashboard (`DashboardPage.tsx`, `dashboardData.ts`) | three lists with a status each | load, derive, leave | the API | what it says of an event was so, whatever is read when and whatever fails |
| Calendar (`WeekCalendar.tsx`, `CalendarGrid.tsx`, `weekMath.ts`, `monthGrid.ts`) | the week shown | go to a week, place events | - | the right week; overlapping events side by side, in no more lanes than needed |
| Configuration (`core/config.py`, `.env.prod`, Compose) | none | validation at start-up, by the script, by Compose, by Alembic | - | what reaches a container is acceptable to the code in it |
| Logging, metrics, middleware (`api/middleware.py`, `core/metrics.py`) | gauge, counters | observe every request | monitors | they say what clients were told, however a request ends |
| Schema and migrations (`alembic`) | tables, revision, reference data | upgrade, downgrade | PostgreSQL | a command takes effect whole; operators' rows stay |
| Deployment (`scripts/deploy.sh`, `verify_deployment.py`) | checkout, images, containers | pull, validate, build, migrate, replace, start, verify | Docker, git, PostgreSQL | only fit code is started; exit 0 means current, a failure means trouble |
| Localisation, theme, layout | presentation | - | - | - |

Interactions that matter: callers of `enqueue_notification` hand a job to Redis and
never see its result; workers share jobs only through Redis keys with a time to
live; the worker reports the provider's answer to arq by returning or raising.
In the browser all tabs share one token, but each has its own provider, and every
request reads the token when it starts and applies its answer when it ends. API
requests and commands share only PostgreSQL, at READ COMMITTED: each SELECT sees what
is committed when it runs, and only constraints tie it to a later write. The script,
the containers and the operator share images, `.env.prod` and the schema.

What is hard here: replies lost after a commit, workers that stop, crash or hang
at the provider, leases that must outlive the runs they protect, Redis restarting
empty, job timeouts racing late answers; and, in the browser, answers applied
after a logout, a newer login or another tab's change. In the API: rows deleted between
a lookup and an insert, rights that change between two statements, answers lost after a
commit. Around it: pools that coroutines create and drop under each other, one heartbeat
key for all workers, threads held by a wedged database, and a script that may stop at
any step while the old containers serve. `PROJECT.json` lists each hazard at its line
with the properties that cover it, or the reason why none does.

## 2. Modules

### Delivery of notifications

* `RetryPolicy` - the back-off of `retry.py` (`DelayFor`) and the retry hint that
  `worker.py` reads back from a diagnostic text (`HintOf`). Durations are integers.
* `Provider` (extends it) - from an HTTP outcome to a result (`Response`,
  `NoResponse`) and from a result and a run number to what the run ends with
  (`Classify`: a verdict, or "retry" with its delay).
* `Delivery` (extends it) - the state machine. `call` follows an enqueue (sent,
  committed by Redis, returned or raised); `payload`, `queued`, `wait`, `tries`,
  `lease` are the Redis keys of a job; `proc` and `task` are the worker processes
  and their runs; `verdict` is the recorded end. Counters `sends`, `copies`,
  `retried`, `interrupted`, `blind` only record history for the properties; no
  guard reads them.
* `DeliveryPromise` - what a caller may rely on, with no worker, queue or Redis in
  it. `Delivery!AtLeastOnce` is `DeliveryPromise!Spec` under the mapping
  `requested` = enqueue calls started, `acknowledged` = calls returned, `got` =
  copies delivered, `outcome` = verdicts.
* `MCDelivery`, `DeliveryProofs` - instances for TLC, and proofs.

| Action | Code |
|---|---|
| `EnqueueSend`, `EnqueueCommit`, `EnqueueReturn`, `EnqueueRaise` | `enqueue_notification` (`service.py:97`), split at its await: Redis may execute the command and lose the reply |
| `Claim`, `StartRun` | arq's poll and in-progress key; the beginning of a run: counter, payload, then `deliver_notification` (`worker.py:95-120`) |
| `ProviderDelivers`, `Answer` | the await on the provider; `Answer` is the rest of `deliver_notification` (`worker.py:120-206`), which has no further await |
| `RunTimesOut` | arq's `wait_for` with `job_timeout = 120` (`worker.py:293`) |
| `Finish` | arq's `finish_job`: retry (lease freed, score moved) or end (all keys deleted) |
| `Stop`, `Cancel`, `Exit`, `Crash`, `Restart` | signals, cancelled runs, process exit, `restart: unless-stopped` |
| `Tick` | time: every timer holds what remains of it |
| `RedisLoss`, `Outage` | Redis runs without persistence (`docker-compose.prod.yml:75`); payload keys expire after a day |

arq and Redis are external: their part is modelled from the settings `app/worker`
gives them. Redis round trips take no ticks; an action between two awaits is atomic.

### The web login session

* `WebSession` - `stored` is the token in `localStorage`; `valid` and `issued` are
  the backend's; per tab there are `page`, `loading`, `user`, `form`, and one slot
  per kind of request (`restore`, `post`, `me`, `data`) with its `stage` and the
  token it `carried`. `discarded`, `leftTabs` and `alone` (tabs whose latest load
  or login had the tab to itself, until another tab changes storage) record history;
  no guard reads them.
* `MCWebSession`, `WebSessionProofs` - instances for TLC, and proofs.

| Action | Code |
|---|---|
| `Load` | a page load; the mount effect of `AuthProvider` (`context.tsx:71-81`) |
| `RestoreEnds` | the `then` and `catch` of the restoration (`context.tsx:80-93`) |
| `SubmitLogin`, `LoginGranted`, `LoginComplete`, `LoginFails` | `handleSubmit`, `login` of the provider and of `api.ts`, split at their two awaits |
| `Unauthorized` | `handleUnauthorized` (`client.ts:71`): clears whichever token is stored and resets this tab's user; the body is parsed after it, so the promise rejects in a later step |
| `GateRedirect`, `Bounce`, `Logout`, `FetchData`, `DataArrives` | `AuthGate`, `LoginForm`'s effect, `UserMenu`, `useApiData` |
| `AnswerRequest`, `AnswerLogin`, `Invalidate` | `get_current_user` and `login` of the API, as far as the browser can tell them apart |
| `Travel` | Back and Forward, without a new page load |

A client-side navigation is one step with its trigger; `returnTo` chooses between
protected pages, which the model does not tell apart; nothing calls `refreshUser`.
An account that is activated again is left out: no operation of the code does it.

### Accounts and authorization

* `Authz` - the permission each role holds, from the revision that seeds it.
* `Accounts` - the tables `users` and `user_application_roles`; a process is one run of
  `create_user` or `assign_role`, one login, or one call of a protected route. `step` is
  the statement it executes next, `who` the row it has read.
* `MCAccounts`, `AccountsProofs`.

| Action | Code |
|---|---|
| `StartCreate`, `Prompt`, `CreateInsert` | `create_user.py`: arguments, role code, two prompts; `create_user` (`services/auth.py`) with its unique name |
| `StartAssign`, `FindGrantee`, `CheckGrant`, `InsertGrant`, `Report` | `assign_role.py` and `assign_application_role` (`services/authz.py:142`), a statement each |
| `StartLogin`, `ReadUser`, `Rehash` | `authenticate_user`; the rewrite of a stale hash is a second statement |
| `StartCall`, `Authenticate`, `Authorize` | `get_current_user`, then `require_permission` (`api/deps.py`) |
| `Crash` | a command is killed, a request's connection to the database breaks |
| `Deactivate`, `DeleteUser`, `TokenExpires`, `ParametersChange` | an operator's SQL, time, new Argon2 parameters |

A name is a canonical one, and what people type is mapped to it by `Canonical`
(`normalize_username`). Argon2 and JWT are libraries: a hash is the password it verifies
with "current parameters or not", a token is its subject.

### People, events and assignments, and the pages

* `Registry` - the nine routes of `api/roles.py`, `persons.py`, `events.py` and
  `event_assignments.py` over their tables. `Route` holds for each operation what its
  decorator and handler say: permission, first statement, documented statuses.
* `AtomicApi` - what these routes promise their clients, with no statements and no
  transactions in it: a request is asked, admitted or refused, acts once, at one moment,
  and is answered. `Registry!ActsAtOnce` is `AtomicApi!Spec` under the mapping `Stages`
  (statements up to the deciding one are "admitted", those after it "done"), `asks` = the
  request, `status` = its result, `row` = the id it committed, and `RowsTold` = the rows of
  its answer, except the roles of a list of people, which are read in a later statement
  and have `RolesWhole` for themselves.
* `EventForm` (extends it) - the assignment form (`EventAssignments.tsx`) as one client
  among others. A form stops waiting when the answer is lost; its request may be served
  all the same (`Unheard`).
* `Dashboard` (extends `Registry`) - the dashboard page as another client: one request per
  list, each of which may fail or be lost, and what `buildDashboardEvents` makes of their
  answers. `bare` and `held` remember, from mounting until the assignments have come,
  which events were seen without an assignment and which with one; no guard reads them.
* `WeekCalendar` - the weekly calendar, which writes nothing: days are numbered from a
  Sunday, instants are minutes of UTC, and the viewer has a zone with a fixed offset.
  `FirstShown` and `Week` are `startOfWeek` and what is made of it; `Column`, `Top` and
  `Packed` the `useMemo` of `CalendarGrid.tsx:108`.
* `Screens` - the three pages beside other clients. They share nothing but the API, and
  none keeps anything when it is left, so a behaviour follows one page (`focus`): to each
  of them another page is one more client.
* `MCScreens`, `RegistryProofs`, `EventFormProofs`, `DashboardProofs`, `ScreensProofs`.

| Action | Code |
|---|---|
| `Access` | `get_current_user` and `require_permission`; their two statements are one here, `Accounts` has them apart |
| `Read`, `ReadRoles` | the list and detail routes; `GET /api/persons` reads people and roles in two SELECTs |
| `Lookup`, `InsertPerson`, `InsertEvent` | `services/persons.py:28-60`, `services/events.py` |
| `GetEvent`, `GetPerson`, `GetResponsibility`, `InsertAssignment`, `Reselect` | `services/event_assignments.py:44-95`, a statement each; the foreign keys decide at the insert |
| `Die` | the process or its connection dies at any statement |
| `DeleteEvent`, `DeletePerson`, `DeleteCode`, `Promote`, `Disable` | an operator's SQL with its cascades; changes of the account behind the requests |
| `Submit`, `Accepted`, `Rejected`, `PostLost` | `handleSubmit`, split at its await |
| `Refresh`, `Refreshed`, `RefreshFails` | `refreshAssignments` and its caller's `catch` |
| `Enter`, `Fetch`, `Loaded`, `Failed`, `Lost`, `Leave` | `useApiData`: its effect, the two ends of its promise, its clean-up |
| `Mount`, `Previous`, `NextWeek`, `Today`, `RenderLater` | the calendar: events appear after the first render, the header's buttons, a render on a later day |

### Around the application

`Ops` composes six modules. They share nothing but Redis, which fails under all of them
at once, and the schema, which the deployment migrates. A behaviour follows one of them
(`focus`), since steps of the others commute with its own: the run explores the sum of
their state spaces in place of the product.

| Module | State | Code |
|---|---|---|
| `Redis` | up or down | the service all of them use (external) |
| `EnqueuePool` | the cached pool, where each coroutine awaits, which pools hold connections | `_get_pool`, `enqueue_notification`, `close` (`worker/service.py:76-160`), split at their awaits; a cancelled caller is `Cancel` |
| `Heartbeat` | ticks until the key expires and until each worker beats | `worker.py`'s settings, `worker_healthcheck.py`; arq's loop is external |
| `Readiness` | requests with their three checks, database, threads, gauge and counters | `api/health.py`, `api/middleware.py`, `core/metrics.py` |
| `Settings` | none: operators on classes of values | `core/config.py`, `docker-compose.prod.yml`, step 2 of `deploy.sh`, `alembic/env.py` |
| `Migrations` | revision, tables, rows of the reference data | `alembic/versions`, `alembic/env.py`; what operators and the application do to those rows |
| `Deploy` | git, images, containers, the step of the script, the verification | `deploy.sh` (`Begin` .. `Verdict`), `verify_deployment.py` (`Verify`), Compose's replacing and starting; between runs `EditEnv`, `Checkout`, `UpByHand` |

`MCOps` and `MCDeploy` are the instances, `OpsProofs` holds the proofs. A
migration command is at most five steps (`StepUp`, `StepDown`) on the database its
transaction sees, which `Commit` takes over or nothing does.

## 3. Runs

| Run | Instance | Checks |
|---|---|---|
| `delivery_safety` | 1 job, 2 workers (symmetric), 3 attempts, 4 tries, 2 faults, 1 Redis restart, 1 outage | `TypeOK`, `SingleRun`, `SendBudget`, `DuplicatesExplained`, `NothingDropped`, `VerdictFinal`, refinement `AtLeastOnce` |
| `delivery_liveness` | 2 jobs (one with a bad payload), 1 worker, 2 attempts, 2 faults, 1 outage | `EveryJobEnds` |
| `delivery_error` | as safety, Redis keeps its data | finds `ErrorMeansNotQueued` violated |
| `delivery_attempts` | same | finds `AttemptsWithinPolicy` violated |
| `delivery_timeout` | same | finds `TimeoutIsRetryable` violated |
| `session_safety` | 2 tabs (symmetric), 2 accounts with a token each (swapped together), 1 load per tab | `TypeOK`, `ClearedStaysCleared`, `LogoutSticks`, `IdentityBacked` |
| `session_liveness` | 1 tab, 3 tokens of two accounts, 2 loads | `NoTabHangs` |
| `session_stale` | 1 tab, 2 tokens, 2 loads | finds `OnlyStaleCleared` violated |
| `accounts_safety` | 2 processes (symmetric) out of 4 starts, 2 ids, 2 names (symmetric), 2 passwords | `TypeOK`, `HoldersKnown`, `GrantsMatchCommands`, `PasswordSticks`, `ServedRightly` |
| `screens_safety` | 2 requests at a time out of 3, 1 act of an operator; form: an administrator's account, 2 people, events and assignment ids, other clients about its event; dashboard: an operator's account, another client assigns or asks for a new person, 1 act; calendar: 4 events at 9 instants, Tehran, weeks from Saturday, 5 days, 3 weeks | `TypeOK`, `NoDangling`, `RolesWhole`, `AnswersTrue`, `RowsAreTold`, `CreatedRowShown`, `ListedIsTrue`, `WeekHoldsToday`, `LanesFit`, refinement `ActsAtOnce` |
| `ops_safety` | pool: 2 coroutines, 3 pools, 2 closes; heartbeat: 2 workers, interval 3, TTL 4; API: 2 requests, 1 thread, 1 metered call; deployment: 2 commits at revisions 4 and 5, 4 kinds of `.env.prod`, 2 runs, 1 edit; migrations: 2 rows of operators | `TypeOK`, `NoPoison`, `DiscardsExplained`, `CleanShutdown`, `HeartbeatExplained`, `MetricsTrue`, `ReadinessExplained`, `ReadinessRecovers`, `StartedFit`, `DoneMeansCurrent`, `SchemaWhole`, `DataKept` |
| `deploy_redirect` | 1 commit, 1 run | finds `FailureMeansTrouble` violated |

Every property has a mutant: a variant of one mapped definition, kept beside it and
marked "Mutant", under which TLC finds the property violated. No mutant takes part in
`Next`.

What the violations show (quotes in `PROJECT.json`, "findings"):

* An enqueue call that raises `NotificationQueueError` may have queued its job: every
  exception is reported as "not queued", a lost reply included.
* A job may call the provider more often than `max_attempts`: the counter is compared
  only after a failed answer, so a run cut short on the last attempt runs again.
* A run that hits `job_timeout` is a permanent failure on its first attempt, though
  the worker's documentation calls everything unexpected retryable.
* A wrong password can delete a token the backend still accepts: `POST /login` is
  not tokenless while a stored token is waiting for, or has survived, a restoration.
* `deploy.sh` verifies with a base URL that carries the HTTPS port, and the redirect
  check replaces only its scheme: the deployment of a healthy stack ends as failed.

Some properties say less than a document, because the code guarantees no more:

* `KeyMeansRecentWorker` and `MissingKeyExplained` in place of "the key means a live
  worker": it outlives a crash by up to its time to live, and a worker that stops in
  order deletes it under the others (`health.py:125`).
* `DiscardsExplained` counts pools that leave the cache unclosed: a lost race and a
  failed enqueue cost one each. `close()` (`service.py:150`) also closes a pool that was
  injected.
* `RowsAreTold` does not say that rows are unique. No constraint on assignments makes them
  so, and `services/event_assignments.py:14` leaves it open: the form lets the same person
  and responsibility be submitted again, after a 201 as after a lost answer, and each
  submission may make a row. What it says is that the form knows of each row, or sent its
  triple without getting a definite answer.
* `LogoutSticks` has one exception. `/login` may be submitted while a restoration runs; if
  the restoration succeeds and the person goes Back to the pages and logs out, `/me` of
  that login is still on its way, and `context.tsx:107-115` sets the user: the tab is
  logged in again and on a protected page (`LoginForm.tsx` navigates there), with that
  login's token in storage if its `POST` too was answered after the logout. `docs/06-BACKEND-API.md:996` promises "no usable protected page"
  after a logout without such a case. `overtaken` marks the tabs whose logout came before
  the answer; without it TLC finds the behaviour just told.
* `CreatedRowShown` holds only of forms without a refresh error, though a comment
  (`EventAssignments.tsx:59`) says that the row is shown in any case.
* `GaugeIsInFlight` counts health and metrics requests too, which the comment at
  `middleware.py:35` says are not metered.
* `StartedFit` leaves out containers put up by hand: `up -d` after a failed migration
  (`docs/12-DEPLOYMENT.md:183`) starts new code on the old schema. A rollback across a
  migration stops at the migration step, since the older image does not know the
  revision; the downgrade documented for after the image rollback needs the newer image.
* `AlembicReads`: a `%` in the database password is taken by everything but Alembic.
* `ListedIsTrue` is about lists that have come. The dashboard leaves its loading screen with
  the first of three lists (`DashboardPage.tsx:59`) and says of those still loading that
  they "could not be loaded", which `:30` promises of failed ones alone. Its number of
  assignments is the length of that list (`dashboardData.ts:83`), also of events the page
  has not got, while `:33` speaks of "assignments referencing existing events".
* `LanesFit` takes positions as they are. An event from 21:13 on is
  clamped and marked as outside (`CalendarGrid.tsx:128`), though the visible hours of `:11`
  end at 22:00; and since the clamped positions are sorted, events outside the hours
  appear in the order of their ids, not in the backend's, which `:140` says is preserved.
* `IdentityBacked` names the two ways a tab can show an account whose token is not
  stored, neither of which a document rules out: another tab has changed storage since
  (its requests, tokenless now, get 401s that reset nothing), or a restoration or a
  request for data was on its way when the login was submitted, and its answer, applied
  late, shows the older identity over the newer token or clears it.

### Bounds

Bounds limit the environment only: faults, Redis restarts, outages, page loads, tokens.
Two workers are enough for every question about exclusion, since it relates two runs;
one worker is what lets all workers be down at once, so that payloads expire, in the
liveness run;
jobs share nothing but a worker's slots (`MaxJobs`), which two jobs in one worker
exercise; three attempts give a first, a middle and a last one; `MaxTries` = 4 puts the
outer limit one above the policy's, reachable with one interruption, and both below
what two faults allow. `JobTimeout` = 2 and `LeaseTTL` = 3 keep arq's order (lease =
timeout + 10 s). Two faults are a crash during the recovery from another. `Waits` has no
hint, a negative one and one above the cap. A second tab is needed to change storage
under the first; two tokens make "the answer to the old one" and "the stored one"
differ.

`Accounts`: two overlapping processes are enough to race at every pair of statements,
and four starts let a race follow an account's creation and grant. `Screens`: two
requests overlap and a third refreshes or repeats; one act of an operator is a deletion,
with its cascade, or a change of rights, at any statement of a request. `RoleBeside`
gives the account a role for each page. Beside the form it is `admin`, which creates
people, so the one act may be the deletion of a role between the lookup and the insert
of a person, or of a person between the two SELECTs of a list; other clients send every
request but those for the list of events and about events the form is not about
(`BesideForm`). Beside the dashboard it is `operator`, so a request for a new person is
refused, or granted if the one act is a promotion before the check. A second event and
person tell wrong references from right ones. For the dashboard the two lists that are
correlated and another client's write between or before them make three requests, and
one act deletes what one of the lists has (`OtherRequest`, `OtherActs` bound the others
there). The calendar's four events overlap in chains and fill a lane that was left; the
instants lie on both sides of the edges of the visible hours, of a block's height and of
midnight; five days cross the beginning of a week. `Ops`: a race for the pool takes two
coroutines, and three pools let the loser's be dropped after the winner's; `Interval` =
3 and `TTL` = 4 keep arq's order and leave ticks between a beat and an expiry; one
thread is a full executor; two commits with different heads are an upgrade and a
rollback across it, and each `.env.prod` but the good one is first noticed by another
step. Two rows of operators meet a seed in every combination of two of the four kinds.
The proofs in section 4 have no bounds.

`CHECK_DEADLOCK FALSE`: the system may rest, when all jobs have verdicts and the
environment's bounds are used up, or when nobody touches the browser. `ops_safety`
checks for deadlock.

### Fairness

`Delivery!Fairness`: polling workers claim some due job, event loops run the callbacks
that are ready, the job timeout fires, stopping workers stop, compose restarts workers,
time passes. The provider need not answer and nobody needs to enqueue; faults, losses
and outages are never forced. Redis losses are excluded from `EveryJobEnds`: a lost
queue is lost, which `docker-compose.prod.yml` accepts.

`WebSession!Fairness`: requests are answered or fail, their callbacks run, effects run
after a render. People, page loads and invalidations are not fair. Liveness is of the
form "again and again", because people may go on clicking.

`ReadinessFairness`: a request in progress goes on (`Serve(r)`: every await of a health
handler ends with an answer or a timeout, and every handler returns or raises), and an
abandoned ping ends once the database answers or refuses (`StuckPingEnds`). Monitors
need not ask, and nothing is forced on the database or on Redis: `ReadinessRecovers`
speaks of behaviours in which both are up from some time on.

## 4. Proofs

TLAPS proves, for every number of jobs, workers, tabs, accounts and tokens and every
bound on the environment, from the named assumptions on constants (`PolicyAssumption`,
`DeliveryAssumption`, `SessionAssumption`, `AccountsAssumption`, `RegistryAssumption`,
`FormAssumption`, `WeekAssumption`, `PoolAssumption`, `HeartbeatAssumption`,
`ReadinessAssumption`, `MigrationsAssumption`, `DeployAssumption`):

* `DelayBounds` - a retry waits at least one unit, at most the cap, and at least the
  provider's hint up to the cap.
* `TypeCorrect`, `NoConcurrentRuns`, `SendsBounded`, `DuplicatesHaveReasons`,
  `CommittedJobsSurvive`, `VerdictsAreFinal` - the safety properties of `delivery_safety`.
* `DeliveryImplementsPromise` - the refinement.
* `SessionTypeCorrect`, `TokensStayCleared`, `LogoutsStick`, `IdentitiesAreBacked` - the
  safety properties of `session_safety`.
* `AccountsTypeCorrect`, `HoldersAreKnown`, `CommandsAreTrue`, `PasswordsStick`,
  `ServedAreInOrder` - all of `accounts_safety`.
* `ScreensTypeCorrect`, `ReferencesHold`, `RolesStayWhole`, `AnswersAreTrue`,
  `WritesAreAllowed`, `RowsAreReported`, `CreatedRowsAreShown`, `ListsAreTrue`,
  `WeekIsRight`, `LanesAreRight` - of `screens_safety`, for any number of requests, rows,
  codes, forms, acts of operators and calendar events, any zone, first day of the week and
  offset. (`WritesNeedRight`, which the refinement includes, is not checked by a run.)
* `RequestsActAtOnce` - the refinement of `AtomicApi`, with the three pages as clients;
  `RegistryActsAtOnce` - the same for the API among clients of any kind.
* `HeartbeatMeansWhatItSays`, `PoolsAreNotPoisoned`, `DiscardsAreExplained`,
  `ShutdownsAreClean`, `MetricsTellTheTruth`, `ReadinessHasReasons` - of `ops_safety`,
  for any number of coroutines, pools, workers, requests and threads.
* `SchemasAreWhole`, `RowsAreKept`, `OnlyFitIsStarted`, `DoneIsCurrent` - of `ops_safety`,
  for any commits of main with their newest revisions, any `.env.prod` and any number of
  runs, edits and rows; `OpsTypeCorrect` - its `TypeOK`.

The delivery argument rests on `IInv`. `SingleRun` alone is not inductive: that a due
job has no live run needs `LeaseCovers` - a live run of a queued job has a lease longer
than the time left to the run - which `LeaseTTL > JobTimeout` starts off, `Tick` keeps,
because time stands still for a run that is about to time out, and an empty Redis
leaves true, because what it lost is not queued. `SendBudget` needs `CounterCovers`
(arq's counter is above all sends and retries while the payload exists) and
`SendsExplained`. The refinement needs `Settled` (a job with a verdict has no run and no
queue entry), `Untouched` (nothing exists before the commit) and `CopiesCovered`.

The session argument has four parts. `RestoringIsLoading` and
`LeftIsQuiet`: only an answered restoration or login sets a user, a restoration in
flight means the tab is loading, and the gate lets nobody log out while it is, so a tab
that logged out has no answer to come that would set its user but that of a login its
logout overtook.
`GrantedIsNew`: a token on its way to a tab has never been stored. `IdentityHasToken`:
an identity is only ever answered to a request with a token. `AloneIsBacked`: in a tab
that has its load or login to itself nothing else is on its way, nobody is shown before
the login is complete, and an identity on its way is that of the stored token
(`Backed`); a step of another tab that changes storage ends its being alone.

The accounts argument follows a process through its statements. Ids keep the name they
were created with (`NamedBefore`), so what a command has read stays true of the row
although it may be gone; `CreatesNamed` and `RoleWasOrdered` tie a write to the command
it serves, `RehashVerified` a rewrite of a hash to the password just verified,
`ReportIsTrue` an exit status to the grant, and `LateStaysOut` keeps a request that came
too late at a step where it is still refused.

The registry argument has an invariant of the tables (`TableInv`) and one per request
(`ProcInv`): an id is never drawn twice, a statement is only reached behind its route's
permission check and lookups (`OnItsWay`, `Allowed`), and a list answers with rows it
has read (`ListsKnown`). The form adds `Waits` (what it waits for is its own request),
`ShowsMade`, and `Accounted`: every row of a form is among those it was told of, in an
answer on its way to it, or was sent without an answer; `Orphans` says whose requests nobody awaits.
`RegistryInvariant` is proved of `Registry` alone, and its lemmas, one per kind of step,
serve both clients. The dashboard adds `Tells`: a set of rows says of every event something
that was seen while the page asked. The table does until the assignments are there
(`Remembered`), hence so does the answer when it is read (`AnswerTells`) and the list the
page keeps (`DataTells`), because the columns of a row never change and what was seen is
not forgotten. `ScreensInv` puts the pages beside each other: one that nobody follows waits
for nothing (`Idle`, `Blank`), so that the requests of another are to it those of any
client.

The `Ops` arguments are one per module, and `focus` keeps them apart: a step of another
component leaves its variables alone. `KeyOutlivesPause` says that the key a running
worker has set outlasts the ticks until its next beat, unless it was wiped. `Paid`
charges every pool outside the cache to a lost race, a failure, a close or a coroutine
still on its way to one of them; `OnlyTheCached`, `CloserAlone` and `ClosedIsQuiet`
carry an undisturbed `close()` to its end. `StatusIsTold` keeps the middleware's variable
and the response together, and `Explained` accumulates what each check has seen.

The schema argument follows a command through its revisions: `Upgrading` and
`Downgrading` say what its transaction has at each of them, relative to what it found,
and `StepUpKeeps` and `StepDownKeeps` carry them over one revision; a table is created
and seeded by one revision, in this order (`CreatedOnce`, `SeededAfterCreated`). The
script's argument is `Prepared`: at each step, what those before it have established
about images, schema and containers, which edits, checkouts and pushes cannot change
while it runs. `StartedFit` is proved as `Fit`, which speaks of revisions instead of
tables, because a later migration only adds tables. A worker accepts what the api
accepts (`WorkersAcceptToo`), and a container put up by hand without a change is not
replaced (`ByHandStep`).

`DuplicatesHaveReasons` counts with `Accounted`: by `SingleRun` at most one run carries
a copy that is not accounted yet, so the cardinality in the property is 0 or 1.
`OpsTypeCorrect` contains that pings, abandoned ones too, hold at most the executor's
threads (`ThreadsOK`).

The refinement of `AtomicApi` takes a lemma for each statement (`AdmitsOrRefuses` to
`FailsUnanswered`): under `RInv` it is the act of its request, or no step of it. Three facts
of the invariant carry it. `OnItsWay` makes the codes of an insert those of the kind looked
up before, so that a foreign key fails only if something asked for is gone. `NoDangling`
makes a deletion with its cascade the removal of all that refers to what is gone, and of
nothing else. `NothingYet` and `ListsKnown` say that a request that has not acted has
stored and told nothing. To the API a page is a client (`PagesActAtOnce`).

`LanesFit` is about the result of a recursive function, `Packed`, which places the events of
a column one after another; there are finitely many of them (`WeekAssumption`). An induction over the events placed would be a theorem of the
library about any formula, which no prover here can instantiate; `UpTo` replaces it by
the least number of events with which a statement about `Packed` fails (`Least`), of which
there is none. What is carried from one event to the next is that the tops in a column do
not decrease (`ColumnSorted`), that the last event of a lane is its lowest (`TopsSink`), and
that an event gets a lane of its own only if it overlaps the last event of each
(`PlaceFits`, `PackedFits`). `NoFewerLanes` and `NoMoreLanes` turn this into the number of
events on screen at one height.

Only model-checked: all liveness, `EveryJobEnds`, `NoTabHangs`,
`ReadinessRecovers`, which is out of the prover's reach, and the findings.

## 5. Not modelled

* The month grid and the date-time picker: pure arithmetic on `jalaali-js`, `Date` and
  `Intl`, which would have to be modelled first. Changes of a viewer's offset (summer
  time) within a week.
* Of the dashboard: counts by status and by role, the order of the upcoming events; of the
  calendar: the mark of an event outside the visible hours.
* Localisation, theme, layout; the forms for people and events beyond what `Registry`
  sees of them (they submit as the assignment form does and navigate); the other lists.
* `send_many` (no caller in the worker); the metrics, log lines, texts and the JSON codec
  of the worker; histograms, correlation ids and the set-up of logging.
* Password hashing and JWT encoding (libraries), the configured secret's own check.
* Columns that nothing changes after the insert, indexes, the order of lists.
* `backup_db.sh` and `restore_db.sh`: linear scripts whose outcome is that of `pg_dump`
  and `pg_restore`; what an operator changes between a backup and its restoration is lost
  by design.
* The smoke scripts (tests), the check of the host's ports, Caddy's own configuration, and
  the API URL that is built into the web image.

## 6. Plan

Done: `Delivery` and its parts, `WebSession`, `Accounts`, `Registry` with its promise
`AtomicApi`, `EventForm` and `Dashboard`, `WeekCalendar`, their composition `Screens`, `EnqueuePool`, `Heartbeat`,
`Readiness`, `Settings`, `Migrations`, `Deploy`, their composition `Ops`, and the proofs of section 4.

Every safety property of the passing runs is proved. Left: a promise of the accounts in
the manner of `AtomicApi`, where a protected call decides at two moments, not one;
backup and restoration beside `Migrations`, should restoring into a newer schema ever be
documented, and whatever the code grows.
