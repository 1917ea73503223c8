------------------------------- MODULE Delivery -------------------------------
(***************************************************************************)
(* Background delivery of notifications (docs/01 6.5): callers enqueue     *)
(* jobs through BackgroundNotificationService, Redis holds them, and arq   *)
(* workers run deliver_notification on them until each job has a verdict.  *)
(*                                                                         *)
(* The worker loop and the Redis commands are arq's, an external library;  *)
(* they are modelled from how app/worker configures and uses them.  Time   *)
(* is counted in ticks: every timer holds the ticks that remain.           *)
(***************************************************************************)
EXTENDS Provider, FiniteSets

CONSTANTS Job,            \* one per call of enqueue_notification: arq's job id
          Worker,         \* worker processes
          BadJob,         \* jobs refused before the provider: payload, channel
          MaxTries,       \* WorkerSettings.max_tries
          MaxJobs,        \* arq's limit on concurrent runs in one worker
          JobTimeout,     \* WorkerSettings.job_timeout, in ticks
          LeaseTTL,       \* time to live of arq's in-progress key, in ticks
          Waits,          \* retry_after values a provider may send
          MaxFaults,      \* environment bound: stops and crashes of workers
          MaxRedisLosses, \* environment bound: restarts of Redis
          MaxOutages      \* environment bound: day-long absences of workers

ASSUME DeliveryAssumption ==
  /\ BadJob \subseteq Job
  /\ MaxTries \in Nat /\ MaxTries >= 1
  /\ MaxJobs \in Nat /\ MaxJobs >= 1
  /\ JobTimeout \in Nat /\ JobTimeout >= 1
  /\ LeaseTTL \in Nat /\ LeaseTTL > JobTimeout    \* arq: job_timeout + 10 s
  /\ Waits \subseteq Int
  /\ MaxFaults \in Nat /\ MaxRedisLosses \in Nat /\ MaxOutages \in Nat

VARIABLES
  call,        \* call[j]: how far the enqueue call for j has got
  payload,     \* Redis: jobs whose payload key exists
  queued,      \* Redis: members of the queue's sorted set
  wait,        \* Redis: ticks until the score of j is due
  tries,       \* Redis: arq's per-job retry counter (ctx["job_try"])
  lease,       \* Redis: ticks left on the in-progress key of j, 0: no key
  proc,        \* proc[w]: state of the worker process
  task,        \* task[w][j]: the run of j inside w
  verdict,     \* how j ended, "none" while it has not
  sends,       \* history: provider calls made for j
  copies,      \* history: copies of j the provider delivered
  retried,     \* history: runs of j that ended in a Retry
  interrupted, \* history: runs of j cut short by a stop or a crash
  blind,       \* history: delivered copies whose run got no success answer
  env          \* what the environment has used up of its bounds

redis    == <<payload, queued, wait, tries, lease>>
history  == <<sends, copies, retried, interrupted, blind>>
vars     == <<call, redis, proc, task, verdict, history, env>>

-----------------------------------------------------------------------------
(* Types *)

CallState == {"idle", "sending", "committed", "returned", "raised"}
Verdict   == {"delivered", "rejected", "exhausted", "invalid",
              "timeout", "expired", "tries_exceeded"}
Stage     == {"claimed", "sending", "accepted", "answered"}

(* A run: its stage, its job_try, the ticks until arq's wait_for gives up, *)
(* and, once answered, the outcome finish_job is about to record.          *)
Run == [stage : Stage, try : Nat, left : Nat,
        answer : Verdict \cup {"none", "retry"}, defer : Nat]

Idle == [stage |-> "idle", try |-> 0, left |-> 0, answer |-> "none", defer |-> 0]

TypeOK ==
  /\ call \in [Job -> CallState]
  /\ payload \subseteq Job /\ queued \subseteq Job
  /\ wait \in [Job -> Nat] /\ tries \in [Job -> Nat] /\ lease \in [Job -> Nat]
  /\ proc \in [Worker -> {"up", "stopping", "down"}]
  /\ task \in [Worker -> [Job -> Run \cup {Idle}]]
  /\ verdict \in [Job -> Verdict \cup {"none"}]
  /\ sends \in [Job -> Nat] /\ copies \in [Job -> Nat]
  /\ retried \in [Job -> Nat] /\ interrupted \in [Job -> Nat]
  /\ blind \in [Job -> Nat]
  /\ env \in [faults : 0..MaxFaults, losses : 0..MaxRedisLosses,
              outages : 0..MaxOutages]

-----------------------------------------------------------------------------
(* Helpers *)

Live(w, j)   == task[w][j] # Idle
AtProvider(w, j) == task[w][j].stage \in {"sending", "accepted"}
Runs(w)      == {j \in Job : Live(w, j)}
Dec(n)       == IF n > 0 THEN n - 1 ELSE 0
Bump(f, S)   == [j \in Job |-> IF j \in S THEN f[j] + 1 ELSE f[j]]

Init ==
  /\ call = [j \in Job |-> "idle"]
  /\ payload = {} /\ queued = {}
  /\ wait = [j \in Job |-> 0] /\ tries = [j \in Job |-> 0]
  /\ lease = [j \in Job |-> 0]
  /\ proc = [w \in Worker |-> "up"]
  /\ task = [w \in Worker |-> [j \in Job |-> Idle]]
  /\ verdict = [j \in Job |-> "none"]
  /\ sends = [j \in Job |-> 0] /\ copies = [j \in Job |-> 0]
  /\ retried = [j \in Job |-> 0] /\ interrupted = [j \in Job |-> 0]
  /\ blind = [j \in Job |-> 0]
  /\ env = [faults |-> 0, losses |-> 0, outages |-> 0]

-----------------------------------------------------------------------------
(* The caller: BackgroundNotificationService.enqueue_notification.  Its    *)
(* await on Redis is a send, a commit inside Redis and a reply.            *)

(* Mutant: a call that raised is made again with the same job id.          *)
EnqueueAgain(j) ==
  /\ call[j] \in {"idle", "raised"}
  /\ call' = [call EXCEPT ![j] = "sending"]
  /\ UNCHANGED <<redis, proc, task, verdict, history, env>>

EnqueueSend(j) ==
  /\ call[j] = "idle"
  /\ call' = [call EXCEPT ![j] = "sending"]
  /\ UNCHANGED <<redis, proc, task, verdict, history, env>>

(* arq's MULTI: payload key and sorted-set member appear together.         *)
EnqueueCommit(j) ==
  /\ call[j] = "sending"
  /\ call' = [call EXCEPT ![j] = "committed"]
  /\ payload' = payload \cup {j}
  /\ queued' = queued \cup {j}
  /\ UNCHANGED <<wait, tries, lease, proc, task, verdict, history, env>>

(* Mutant: enqueue_job is not awaited.                                     *)
ReturnWithoutAwait(j) ==
  /\ call[j] \in {"sending", "committed"}
  /\ call' = [call EXCEPT ![j] = "returned"]
  /\ UNCHANGED <<redis, proc, task, verdict, history, env>>

EnqueueReturn(j) ==
  /\ call[j] = "committed"
  /\ call' = [call EXCEPT ![j] = "returned"]
  /\ UNCHANGED <<redis, proc, task, verdict, history, env>>

(* Any exception becomes NotificationQueueError, whether it struck before  *)
(* Redis executed the command or only lost the reply.                      *)
EnqueueRaise(j) ==
  /\ call[j] \in {"sending", "committed"}
  /\ call' = [call EXCEPT ![j] = "raised"]
  /\ UNCHANGED <<redis, proc, task, verdict, history, env>>

-----------------------------------------------------------------------------
(* The worker *)

Due(j) == j \in queued /\ wait[j] = 0 /\ lease[j] = 0

(* arq's poll: a due job without an in-progress key is claimed by setting  *)
(* the key; a worker runs at most MaxJobs at a time.                       *)
Claim(w, j) ==
  /\ proc[w] = "up"
  /\ ~Live(w, j) /\ Cardinality(Runs(w)) < MaxJobs
  /\ Due(j)
  /\ lease' = [lease EXCEPT ![j] = LeaseTTL]
  /\ task' = [task EXCEPT ![w][j] =
                [Idle EXCEPT !.stage = "claimed", !.left = JobTimeout]]
  /\ UNCHANGED <<call, payload, queued, wait, tries, proc, verdict, history, env>>

(* A run has its outcome: what is left is to record it.                    *)
Answered(w, j, r, try) ==
  [task EXCEPT ![w][j] = [stage |-> "answered", try |-> try,
                          left |-> task[w][j].left,
                          answer |-> r.answer, defer |-> r.defer]]

(* The beginning of a run: the retry counter is incremented and the        *)
(* payload read in one round trip; a missing payload or a spent counter    *)
(* ends the job without calling deliver_notification, and a payload that   *)
(* cannot be reconstructed, or a channel without a provider, ends it       *)
(* inside.  Otherwise dispatcher.send is awaited.                          *)
StartRun(w, j) ==
  LET try == tries[j] + 1 IN
  /\ task[w][j].stage = "claimed"
  /\ tries' = [tries EXCEPT ![j] = try]
  /\ \/ /\ j \notin payload
        /\ task' = Answered(w, j, Ends("expired"), try)
        /\ UNCHANGED sends
     \/ /\ j \in payload /\ try > MaxTries
        /\ task' = Answered(w, j, Ends("tries_exceeded"), try)
        /\ UNCHANGED sends
     \/ /\ j \in payload /\ try <= MaxTries /\ j \in BadJob
        /\ task' = Answered(w, j, Ends("invalid"), try)
        /\ UNCHANGED sends
     \/ /\ j \in payload /\ try <= MaxTries /\ j \notin BadJob
        /\ task' = [task EXCEPT ![w][j] =
             [stage |-> "sending", try |-> try, left |-> task[w][j].left,
              answer |-> "none", defer |-> 0]]
        /\ sends' = [sends EXCEPT ![j] = @ + 1]
  /\ UNCHANGED <<call, payload, queued, wait, lease, proc, verdict, copies,
                 retried, interrupted, blind, env>>

(* The provider delivers a copy; its answer is still on the way.           *)
ProviderDelivers(w, j) ==
  /\ task[w][j].stage = "sending"
  /\ task' = [task EXCEPT ![w][j].stage = "accepted"]
  /\ copies' = [copies EXCEPT ![j] = @ + 1]
  /\ UNCHANGED <<call, redis, proc, verdict, sends, retried, interrupted,
                 blind, env>>

(* What dispatcher.send can return.  Only a provider that delivered sends  *)
(* an "ok" envelope; a delivered copy may still be answered by a broken    *)
(* envelope, a gateway error or nothing.                                   *)
ResultsWhenUndelivered ==
  {NoResponse(s) : s \in LocalFailures \cup TransportFailures}
    \cup {Response(429, "broken", wt) : wt \in Waits}
    \cup {Response(status, "broken", NoHint) :
            status \in {200, 302, 400, 401, 403, 500}}

ResultsWhenDelivered ==
  {NoResponse(s) : s \in TransportFailures}
    \cup {Response(200, e, NoHint) : e \in {"ok", "broken"}}
    \cup {Response(502, "broken", NoHint)}

(* The rest of deliver_notification: no await between the result and the   *)
(* raise, so receiving and classifying is one step.                        *)
Answer(w, j) ==
  /\ AtProvider(w, j)
  /\ \E result \in IF task[w][j].stage = "accepted"
                   THEN ResultsWhenDelivered ELSE ResultsWhenUndelivered :
       LET r == Classify(result, task[w][j].try) IN
       /\ task' = Answered(w, j, r, task[w][j].try)
       /\ retried' = IF r.answer = "retry" THEN Bump(retried, {j}) ELSE retried
       /\ blind' = IF task[w][j].stage = "accepted" /\ result.code # "ok"
                   THEN Bump(blind, {j}) ELSE blind
  /\ UNCHANGED <<call, redis, proc, verdict, sends, copies, interrupted, env>>

(* Mutant: no job_timeout.                                                 *)
NeverTimesOut(w, j) == FALSE

(* arq's wait_for(task, job_timeout): the TimeoutError is not a Retry, so  *)
(* the job is finished as failed.                                          *)
RunTimesOut(w, j) ==
  /\ AtProvider(w, j) /\ task[w][j].left = 0
  /\ task' = Answered(w, j, Ends("timeout"), task[w][j].try)
  /\ blind' = IF task[w][j].stage = "accepted" THEN Bump(blind, {j}) ELSE blind
  /\ UNCHANGED <<call, redis, proc, verdict, sends, copies, retried,
                 interrupted, env>>

(* arq's finish_job, one transaction.  A retry frees the lease and moves   *)
(* the score (zincrby, which re-creates a member that Redis has lost);     *)
(* any other outcome deletes every key of the job.                         *)
Finish(w, j) ==
  /\ task[w][j].stage = "answered"
  /\ task' = [task EXCEPT ![w][j] = Idle]
  /\ lease' = [lease EXCEPT ![j] = 0]
  /\ \/ /\ task[w][j].answer = "retry"
        /\ queued' = queued \cup {j}
        /\ wait' = [wait EXCEPT ![j] = IF j \in queued
                                       THEN task[w][j].defer ELSE 0]
        /\ UNCHANGED <<payload, tries, verdict>>
     \/ /\ task[w][j].answer # "retry"
        /\ verdict' = [verdict EXCEPT ![j] = task[w][j].answer]
        /\ queued' = queued \ {j}
        /\ payload' = payload \ {j}
        /\ tries' = [tries EXCEPT ![j] = 0]
        /\ UNCHANGED wait
  /\ UNCHANGED <<call, proc, history, env>>

-----------------------------------------------------------------------------
(* Worker processes stop, crash and come back *)

(* SIGTERM: no further claims, every run is cancelled.                     *)
Stop(w) ==
  /\ proc[w] = "up" /\ env.faults < MaxFaults
  /\ proc' = [proc EXCEPT ![w] = "stopping"]
  /\ env' = [env EXCEPT !.faults = @ + 1]
  /\ UNCHANGED <<call, redis, task, verdict, history>>

(* A CancelledError passes through deliver_notification and the dispatcher *)
(* (neither catches it) and arq puts the job back by freeing the lease.  A *)
(* run cancelled in its first round trip has counted a try or not and      *)
(* leaves its lease behind.  finish_job is shielded, so an answered run    *)
(* is not cancelled.                                                       *)
Cancel(w, j) ==
  /\ proc[w] = "stopping"
  /\ task' = [task EXCEPT ![w][j] = Idle]
  /\ interrupted' = Bump(interrupted, {j})
  /\ \/ /\ task[w][j].stage = "claimed"
        /\ tries' \in {tries, [tries EXCEPT ![j] = @ + 1]}
        /\ UNCHANGED <<lease, blind>>
     \/ /\ AtProvider(w, j)
        /\ lease' = [lease EXCEPT ![j] = 0]
        /\ blind' = IF task[w][j].stage = "accepted"
                    THEN Bump(blind, {j}) ELSE blind
        /\ UNCHANGED tries
  /\ UNCHANGED <<call, payload, queued, wait, proc, verdict, sends, copies,
                 retried, env>>

Exit(w) ==
  /\ proc[w] = "stopping" /\ Runs(w) = {}
  /\ proc' = [proc EXCEPT ![w] = "down"]
  /\ UNCHANGED <<call, redis, task, verdict, history, env>>

(* SIGKILL, out of memory, the end of the stop grace period, or a failed   *)
(* finish_job (arq re-raises it and the process dies): runs vanish and     *)
(* leave their leases to expire.                                           *)
UnrecordedCopies(w) ==
  {j \in Job : \/ task[w][j].stage = "accepted"
               \/ task[w][j].answer = "delivered"}

Crash(w) ==
  /\ proc[w] \in {"up", "stopping"} /\ env.faults < MaxFaults
  /\ proc' = [proc EXCEPT ![w] = "down"]
  /\ task' = [task EXCEPT ![w] = [j \in Job |-> Idle]]
  /\ interrupted' = Bump(interrupted, Runs(w))
  /\ blind' = Bump(blind, UnrecordedCopies(w))
  /\ env' = [env EXCEPT !.faults = @ + 1]
  /\ UNCHANGED <<call, redis, verdict, sends, copies, retried>>

Restart(w) ==
  /\ proc[w] = "down"
  /\ proc' = [proc EXCEPT ![w] = "up"]
  /\ UNCHANGED <<call, redis, task, verdict, history, env>>

-----------------------------------------------------------------------------
(* Time and Redis *)

(* One tick.  Redis round trips take no time at this grain, and wait_for   *)
(* fires at its deadline: time waits for runs that are claimed, answered   *)
(* or due to time out.                                                     *)
Tick ==
  /\ \A w \in Worker, j \in Job :
       Live(w, j) => AtProvider(w, j) /\ task[w][j].left > 0
  /\ \E j \in Job : lease[j] > 0 \/ wait[j] > 0
  /\ lease' = [j \in Job |-> Dec(lease[j])]
  /\ wait' = [j \in Job |-> Dec(wait[j])]
  /\ task' = [w \in Worker |-> [j \in Job |->
                [task[w][j] EXCEPT !.left = Dec(@)]]]
  /\ UNCHANGED <<call, payload, queued, tries, proc, verdict, history, env>>

(* Mutant: a Redis that evicts keys with a time to live under pressure.    *)
RedisEvicts ==
  /\ env.losses < MaxRedisLosses
  /\ env' = [env EXCEPT !.losses = @ + 1]
  /\ lease' = [j \in Job |-> 0]
  /\ UNCHANGED <<call, payload, queued, wait, tries, proc, task, verdict, history>>

(* Redis restarts empty: it runs with --save "" and --appendonly no.       *)
RedisLoss ==
  /\ env.losses < MaxRedisLosses
  /\ env' = [env EXCEPT !.losses = @ + 1]
  /\ payload' = {} /\ queued' = {}
  /\ wait' = [j \in Job |-> 0] /\ tries' = [j \in Job |-> 0]
  /\ lease' = [j \in Job |-> 0]
  /\ UNCHANGED <<call, proc, task, verdict, history>>

(* No worker for longer than arq keeps a payload (a day): payloads expire, *)
(* sorted-set members do not.                                              *)
Outage ==
  /\ env.outages < MaxOutages
  /\ \A w \in Worker : proc[w] = "down"
  /\ env' = [env EXCEPT !.outages = @ + 1]
  /\ \E gone \in SUBSET payload : payload' = payload \ gone
  /\ wait' = [j \in Job |-> 0] /\ lease' = [j \in Job |-> 0]
  /\ UNCHANGED <<call, queued, tries, proc, task, verdict, history>>

-----------------------------------------------------------------------------
EnqueueStep(j) ==
  EnqueueSend(j) \/ EnqueueCommit(j) \/ EnqueueReturn(j) \/ EnqueueRaise(j)

RunStep(w, j) ==
  \/ Claim(w, j) \/ StartRun(w, j) \/ ProviderDelivers(w, j) \/ Answer(w, j)
  \/ RunTimesOut(w, j) \/ Finish(w, j) \/ Cancel(w, j)

ProcessStep(w) == Stop(w) \/ Exit(w) \/ Crash(w) \/ Restart(w)

Next ==
  \/ \E j \in Job : EnqueueStep(j)
  \/ \E w \in Worker, j \in Job : RunStep(w, j)
  \/ \E w \in Worker : ProcessStep(w)
  \/ Tick \/ RedisLoss \/ Outage

Spec == Init /\ [][Next]_vars

(* Workers keep polling, their event loops keep running, Redis answers and *)
(* time passes; compose restarts a worker that is down (restart:           *)
(* unless-stopped).  The provider need not answer: the job timeout does.   *)
(* Callers, faults, losses and outages are never forced.                   *)
Fairness ==
  /\ \A j \in Job : WF_vars(\E w \in Worker : Claim(w, j))
  /\ \A w \in Worker, j \in Job :
       /\ WF_vars(StartRun(w, j)) /\ WF_vars(RunTimesOut(w, j))
       /\ WF_vars(Finish(w, j)) /\ WF_vars(Cancel(w, j))
  /\ \A w \in Worker : WF_vars(Exit(w)) /\ WF_vars(Restart(w))
  /\ WF_vars(Tick)

FairSpec == Spec /\ Fairness

-----------------------------------------------------------------------------
(* Safety *)

(* No two runs of one job are alive at once, in whichever workers: the     *)
(* in-progress key outlives every run it protects (job_timeout in          *)
(* worker.py:293, arq's key TTL above it), through crashes, cancelled      *)
(* runs, retries and lost Redis data.                                      *)
SingleRun ==
  \A j \in Job : \A v, w \in Worker : Live(v, j) /\ Live(w, j) => v = w

(* Provider calls for one job: at most max_attempts - 1 retries, one more  *)
(* call, and one for every run that a stop or a crash cut short; never     *)
(* more than max_tries (worker.py:168 and 297).                            *)
SendBudget ==
  \A j \in Job : /\ retried[j] < MaxAttempts
                 /\ sends[j] <= retried[j] + interrupted[j] + 1
                 /\ sends[j] <= MaxTries

(* Duplicates have a cause: every delivered copy but one is a copy whose   *)
(* success never got back to a finished run (lost answer, job timeout,     *)
(* stop, crash).  A recorded success is never followed by another copy.    *)
DuplicatesExplained ==
  \A j \in Job : copies[j] <= blind[j] + (IF verdict[j] = "delivered" THEN 1 ELSE 0)
                   + Cardinality({w \in Worker : \/ task[w][j].stage = "accepted"
                                                 \/ task[w][j].answer = "delivered"})

(* A committed job is never dropped silently: as long as Redis keeps its   *)
(* data, it is queued or has a verdict.                                    *)
Committed(j) == call[j] \in {"committed", "returned"}

NothingDropped ==
  env.losses = 0 =>
    \A j \in Job : Committed(j) => j \in queued \/ verdict[j] # "none"

(* A verdict is final: afterwards the job is neither sent, delivered,      *)
(* retried nor given another verdict, whatever runs or Redis do.           *)
VerdictFinal ==
  [][\A j \in Job : verdict[j] # "none" =>
       /\ verdict'[j] = verdict[j] /\ sends'[j] = sends[j]
       /\ copies'[j] = copies[j] /\ j \notin queued']_vars

-----------------------------------------------------------------------------
(* The inductive invariant behind the safety properties, in named parts.   *)

(* Until Redis commits the enqueue, nothing exists for the job.            *)
Untouched ==
  \A j \in Job : call[j] \in {"idle", "sending"} =>
    /\ j \notin payload /\ j \notin queued /\ verdict[j] = "none"
    /\ sends[j] = 0 /\ retried[j] = 0
    /\ \A w \in Worker : ~Live(w, j)

(* A live run of a queued job is covered by a lease that outlasts it; a    *)
(* job that Redis has lost cannot be claimed at all.                       *)
LeaseCovers ==
  \A w \in Worker, j \in Job :
    Live(w, j) => j \notin queued \/ lease[j] > task[w][j].left

(* A job with a verdict has left the queue and every worker.               *)
Settled ==
  \A j \in Job : verdict[j] # "none" =>
    j \notin queued /\ \A w \in Worker : ~Live(w, j)

(* A run has an outcome exactly when it has been answered.                 *)
AnswerOnce ==
  \A w \in Worker, j \in Job :
    task[w][j].stage = "answered" <=> task[w][j].answer # "none"

DownIsIdle == \A w \in Worker, j \in Job : proc[w] = "down" => ~Live(w, j)

(* arq's counter counts at least the runs that called a provider or        *)
(* retried, for as long as the payload exists; a run's own job_try is      *)
(* above the number of retries so far and not above the counter.           *)
CounterCovers ==
  \A j \in Job :
    /\ j \in payload => retried[j] <= tries[j] /\ sends[j] <= tries[j]
    /\ \A w \in Worker : AtProvider(w, j) =>
         /\ retried[j] < task[w][j].try
         /\ j \in payload => task[w][j].try <= tries[j]

(* A provider call whose run is still open, or ended the job, is not yet   *)
(* explained by a retry or an interruption.                                *)
Pending(j) ==
  \/ verdict[j] # "none"
  \/ \E w \in Worker : \/ AtProvider(w, j)
                       \/ /\ task[w][j].stage = "answered"
                          /\ task[w][j].answer # "retry"

SendsExplained ==
  \A j \in Job : ~Pending(j) => sends[j] <= retried[j] + interrupted[j]

(* Every copy belongs to one provider call, and a success to a copy.       *)
CopiesCovered ==
  \A j \in Job :
    /\ copies[j] <= sends[j]
    /\ \A w \in Worker :
         /\ task[w][j].stage = "sending" => copies[j] < sends[j]
         /\ task[w][j].stage = "accepted" \/ task[w][j].answer = "delivered"
              => copies[j] > 0

IInv ==
  /\ TypeOK /\ Untouched /\ SingleRun /\ LeaseCovers /\ Settled
  /\ DownIsIdle /\ AnswerOnce /\ CounterCovers /\ SendBudget /\ SendsExplained
  /\ CopiesCovered

-----------------------------------------------------------------------------
(* Refinement: the delivery machinery implements the promise of docs/01    *)
(* 6.5.  A notification is requested from the moment its enqueue call is   *)
(* on the wire, because the call may raise although Redis has the job.     *)

Promise == INSTANCE DeliveryPromise WITH
  Notification <- Job,
  Failures     <- Verdict \ {"delivered"},
  Limit        <- MaxTries,
  requested    <- {j \in Job : call[j] # "idle"},
  acknowledged <- {j \in Job : call[j] = "returned"},
  got          <- copies,
  outcome      <- verdict

(* At least once, boundedly often, never after the outcome is recorded,    *)
(* and recorded as delivered only after a delivery: every step of callers, *)
(* workers and Redis is a step of the promise or leaves it alone.          *)
AtLeastOnce == Promise!Spec

-----------------------------------------------------------------------------
(* Liveness *)

(* Every accepted notification ends: once enqueue_notification returned,   *)
(* the job gets a verdict (checked where Redis keeps its data).            *)
EveryJobEnds ==
  \A j \in Job : call[j] = "returned" ~> verdict[j] # "none"

-----------------------------------------------------------------------------
(* Claims of the repository that the code does not keep *)

(* worker/errors.py:16 - the notification was NOT queued, and nothing will *)
(* be delivered later - of every call that raised NotificationQueueError.  *)
ErrorMeansNotQueued ==
  \A j \in Job : call[j] = "raised" => j \notin queued /\ copies[j] = 0

(* worker/retry.py:12 - after max_attempts total attempts the job fails    *)
(* permanently.                                                            *)
AttemptsWithinPolicy == \A j \in Job : sends[j] <= MaxAttempts

(* worker/worker.py:14 - anything unexpected is retryable with bounded     *)
(* backoff: so no run that timed out ends its job before the last attempt. *)
TimeoutIsRetryable ==
  \A j \in Job : verdict[j] = "timeout" => retried[j] = MaxAttempts - 1

=============================================================================
