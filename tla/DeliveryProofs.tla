---------------------------- MODULE DeliveryProofs ----------------------------
(***************************************************************************)
(* Proofs about Delivery for every value of its constants.                 *)
(***************************************************************************)
EXTENDS Delivery, FiniteSetTheorems, TLAPS

-----------------------------------------------------------------------------
(* The back-off policy *)

(* Powers of two are positive: 2^n counts the subsets of 1..n.             *)
LEMMA PowerOfTwo == ASSUME NEW n \in Nat PROVE 2 ^ n \in Nat /\ 2 ^ n >= 1
<1>1. IsFiniteSet(1..n) /\ Cardinality(1..n) = n
  BY FS_Interval
<1>2. /\ IsFiniteSet(SUBSET (1..n))
      /\ Cardinality(SUBSET (1..n)) = 2 ^ n
  BY <1>1, FS_SUBSET
<1>3. 2 ^ n \in Nat
  BY <1>2, FS_CardinalityType
<1>4. 2 ^ n # 0
  BY <1>2, FS_EmptySet
<1> QED BY <1>3, <1>4

(* RetryPolicy.delay_for never waits longer than the cap, makes every      *)
(* retry wait, and respects a provider's hint up to the cap - whatever     *)
(* attempt number and hint it is given.                                    *)
THEOREM DelayBounds ==
  ASSUME NEW attempt \in Nat, NEW hint \in Int
  PROVE  /\ DelayFor(attempt, hint) \in 0..MaxDelay
         /\ attempt >= 2 => /\ DelayFor(attempt, hint) >= 1
                            /\ DelayFor(attempt, hint) >= Capped(hint)
<1> USE PolicyAssumption
<1>1. CASE attempt <= 1
  BY <1>1 DEF DelayFor
<1>2. CASE attempt >= 2
  <2>1. 2 ^ (attempt - 2) \in Nat /\ 2 ^ (attempt - 2) >= 1
    <3>1. attempt - 2 \in Nat
      BY <1>2
    <3> QED BY <3>1, PowerOfTwo
  <2> DEFINE p == 2 ^ (attempt - 2)
  <2>2. BaseDelay * p \in Nat /\ BaseDelay * p >= 1
    <3> HIDE DEF p
    <3>1. p \in Nat /\ p >= 1
      BY <2>1 DEF p
    <3> QED BY <3>1, Z3
  <2> DEFINE b == BaseDelay * p
  <2>3. b \in Nat /\ b >= 1
    BY <2>2
  <2>4. DelayFor(attempt, hint) = Capped(Longer(b, hint))
    BY <1>2 DEF DelayFor, Backoff
  <2> HIDE DEF b
  <2> QED BY <2>3, <2>4, <1>2 DEF Capped, Longer
<1> QED BY <1>1, <1>2

-----------------------------------------------------------------------------
(* Results and their classification *)

(* A call without an HTTP response is never a success.                     *)
LEMMA NoResponseType ==
  ASSUME NEW s \in LocalFailures \cup TransportFailures
  PROVE  NoResponse(s) \in Result /\ NoResponse(s).code # "ok"
BY DEF NoResponse, Failure, Result, Code, NoHint

(* A response is a success only with an "ok" envelope.                     *)
LEMMA ResponseType ==
  ASSUME NEW status \in Int, NEW e \in {"ok", "broken"}, NEW wt \in Int
  PROVE  /\ Response(status, e, wt) \in Result
         /\ Response(status, e, wt).code = "ok" => e = "ok"
<1>1. HintOf(wt) \in Int /\ NoHint \in Int
  BY DEF HintOf, NoHint
<1>2. Success \in Result /\ \A h \in Int :
        /\ Failure("provider_unavailable", h) \in Result
        /\ Failure("notification_rejected", h) \in Result
        /\ Failure("provider_unavailable", h).code # "ok"
        /\ Failure("notification_rejected", h).code # "ok"
  BY <1>1 DEF Success, Failure, Result, Code
<1> QED BY <1>1, <1>2 DEF Response, Confirms

(* Only a delivered copy can be answered with a success.                   *)
LEMMA ResultTypes ==
  /\ \A r \in ResultsWhenUndelivered : r \in Result /\ r.code # "ok"
  /\ \A r \in ResultsWhenDelivered : r \in Result
<1>1. NoHint \in Int
  BY DEF NoHint
<1>2. ASSUME NEW r \in ResultsWhenUndelivered PROVE r \in Result /\ r.code # "ok"
  <2>1. \/ \E s \in LocalFailures \cup TransportFailures : r = NoResponse(s)
        \/ \E wt \in Waits : r = Response(429, "broken", wt)
        \/ \E status \in {200, 302, 400, 401, 403, 500} :
             r = Response(status, "broken", NoHint)
    BY DEF ResultsWhenUndelivered
  <2> QED BY <1>1, <2>1, DeliveryAssumption, NoResponseType, ResponseType
<1>3. ASSUME NEW r \in ResultsWhenDelivered PROVE r \in Result
  <2>1. \/ \E s \in TransportFailures : r = NoResponse(s)
        \/ \E e \in {"ok", "broken"} : r = Response(200, e, NoHint)
        \/ r = Response(502, "broken", NoHint)
    BY DEF ResultsWhenDelivered
  <2> QED BY <1>1, <2>1, NoResponseType, ResponseType
<1> QED BY <1>2, <1>3

(* deliver_notification ends in a verdict or in a Retry, the latter only   *)
(* while the run's number is below max_attempts.                           *)
LEMMA ClassifyType ==
  ASSUME NEW result \in Result, NEW try \in Nat
  PROVE  /\ Classify(result, try).answer
              \in {"delivered", "rejected", "exhausted", "retry"}
         /\ Classify(result, try).defer \in Nat
         /\ Classify(result, try).answer = "retry" => try < MaxAttempts
         /\ Classify(result, try).answer = "delivered" => result.code = "ok"
<1>1. DelayFor(try + 1, result.hint) \in Nat
  BY DelayBounds, PolicyAssumption DEF Result
<1>2. try >= MaxAttempts \/ try < MaxAttempts
  BY PolicyAssumption
<1> QED BY <1>1, <1>2 DEF Classify, AttemptsSpent, Retryable, Ends, Result, Code

-----------------------------------------------------------------------------
(* Frames: what updating one run does to the table of runs *)

(* The fields of a live run have their types, and its stage says whether   *)
(* it is at the provider.                                                  *)
LEMMA RunShape ==
  ASSUME TypeOK, NEW w \in Worker, NEW j \in Job
  PROVE  /\ task[w][j] \in Run \cup {Idle}
         /\ Live(w, j) <=> task[w][j] \in Run
         /\ Live(w, j) <=> task[w][j].stage \in Stage
         /\ ~Live(w, j) => task[w][j].answer = "none" /\ ~AtProvider(w, j)
         /\ Live(w, j) => task[w][j].left \in Nat /\ task[w][j].try \in Nat
                          /\ task[w][j].defer \in Nat
BY DEF TypeOK, Live, AtProvider, Run, Idle, Stage

(* Replacing one entry of the table of runs keeps all the others.          *)
LEMMA TaskUpdate ==
  ASSUME TypeOK, NEW w \in Worker, NEW j \in Job, NEW r \in Run \cup {Idle},
         task' = [task EXCEPT ![w][j] = r]
  PROVE  /\ task' \in [Worker -> [Job -> Run \cup {Idle}]]
         /\ task'[w][j] = r
         /\ \A v \in Worker, k \in Job :
              v # w \/ k # j => task'[v][k] = task[v][k]
BY DEF TypeOK

(* Counting jobs up keeps a counter a counter.                             *)
LEMMA BumpType ==
  ASSUME NEW f \in [Job -> Nat], NEW S
  PROVE  /\ Bump(f, S) \in [Job -> Nat]
         /\ \A j \in S \cap Job : Bump(f, S)[j] = f[j] + 1
         /\ \A j \in Job \ S : Bump(f, S)[j] = f[j]
BY DEF Bump

-----------------------------------------------------------------------------
(* The inductive invariant *)

(* Initially nothing is enqueued, claimed or counted.                      *)
LEMMA InitInv == Init => IInv
<1> SUFFICES ASSUME Init PROVE IInv
  OBVIOUS
<1> USE PolicyAssumption, DeliveryAssumption DEF Init
<1>1. TypeOK
  BY DEF TypeOK, CallState
<1>2. \A w \in Worker, j \in Job :
        /\ ~Live(w, j) /\ ~AtProvider(w, j)
        /\ task[w][j].stage = "idle" /\ task[w][j].answer = "none"
  BY DEF Live, AtProvider, Idle
<1>3. Untouched /\ SingleRun /\ LeaseCovers /\ Settled /\ DownIsIdle
      /\ AnswerOnce
  BY <1>2 DEF Untouched, SingleRun, LeaseCovers, Settled, DownIsIdle, AnswerOnce
<1>4. CounterCovers /\ SendBudget /\ SendsExplained /\ CopiesCovered
  BY <1>2 DEF CounterCovers, SendBudget, SendsExplained, CopiesCovered
<1> QED BY <1>1, <1>3, <1>4 DEF IInv

(* The enqueue call touches Redis once, for a job nothing else knows.      *)
LEMMA EnqueueInv ==
  ASSUME IInv, NEW j \in Job, EnqueueStep(j)
  PROVE  IInv'
<1> USE DEF IInv
<1>1. task' = task /\ verdict' = verdict /\ proc' = proc
      /\ UNCHANGED <<wait, tries, lease, history, env>>
  BY DEF EnqueueStep, EnqueueSend, EnqueueCommit, EnqueueReturn, EnqueueRaise, redis
<1>2. TypeOK'
  BY <1>1 DEF EnqueueStep, EnqueueSend, EnqueueCommit, EnqueueReturn,
              EnqueueRaise, redis, history, TypeOK, CallState
<1>3. /\ \A k \in Job : k # j => call'[k] = call[k]
      /\ \A k \in Job : k # j => (k \in payload' <=> k \in payload)
                               /\ (k \in queued' <=> k \in queued)
      /\ \/ UNCHANGED <<payload, queued>>
         \/ call[j] = "sending" /\ call'[j] = "committed"
      /\ call'[j] \in {"idle", "sending"} => call[j] \in {"idle", "sending"} /\ UNCHANGED <<payload, queued>>
  BY DEF EnqueueStep, EnqueueSend, EnqueueCommit, EnqueueReturn,
         EnqueueRaise, redis, TypeOK, CallState
<1>4. Untouched'
  BY <1>1, <1>3 DEF Untouched, Live, history
<1>5. SingleRun' /\ LeaseCovers' /\ Settled' /\ DownIsIdle'
  BY <1>1, <1>3 DEF SingleRun, LeaseCovers, Settled, DownIsIdle, Untouched, Live, history
<1>6. CounterCovers'
  BY <1>1, <1>3 DEF CounterCovers, Untouched, AtProvider, TypeOK, history, Live, Run, Idle
<1>7. SendBudget' /\ SendsExplained' /\ CopiesCovered' /\ AnswerOnce'
  BY <1>1 DEF SendBudget, SendsExplained, CopiesCovered, AnswerOnce, Pending,
              AtProvider, history
<1> QED BY <1>2, <1>4, <1>5, <1>6, <1>7

(* A claim needs an expired lease, and a live run of a queued job holds    *)
(* one: so the claimed job has no live run.                                *)
LEMMA ClaimInv ==
  ASSUME IInv, NEW w \in Worker, NEW j \in Job, Claim(w, j)
  PROVE  IInv'
<1> DEFINE r == [Idle EXCEPT !.stage = "claimed", !.left = JobTimeout]
<1>1. r \in Run /\ r.stage = "claimed" /\ r.answer = "none" /\ r.left = JobTimeout
  BY DeliveryAssumption DEF Idle, Run, Stage
<1> HIDE DEF r
<1>2. /\ task' \in [Worker -> [Job -> Run \cup {Idle}]] /\ task'[w][j] = r
      /\ \A v \in Worker, k \in Job : v # w \/ k # j => task'[v][k] = task[v][k]
  <2>1. TypeOK /\ task' = [task EXCEPT ![w][j] = r]
    BY DEF Claim, IInv, r
  <2>2. r \in Run \cup {Idle}
    BY <1>1
  <2> QED BY <2>1, <2>2, TaskUpdate, ZenonT(60)
<1>3. UNCHANGED <<call, payload, queued, wait, tries, proc, verdict, history, env>>
  BY DEF Claim
<1>4. TypeOK'
  BY <1>2, <1>3, DeliveryAssumption DEF Claim, IInv, TypeOK, history
<1>5. /\ j \in queued /\ lease'[j] = LeaseTTL /\ proc[w] = "up"
      /\ \A k \in Job : k # j => lease'[k] = lease[k]
  BY DEF Claim, Due, IInv, TypeOK
<1>6. \A v \in Worker : ~Live(v, j)
  <2>1. TypeOK /\ LeaseCovers /\ j \in queued /\ lease[j] = 0
    BY DEF Claim, Due, IInv
  <2> QED BY <2>1, RunShape DEF LeaseCovers
<1>7. /\ \A v \in Worker, k \in Job : v # w \/ k # j =>
           /\ Live(v, k)' <=> Live(v, k)
           /\ AtProvider(v, k)' <=> AtProvider(v, k)
      /\ ~AtProvider(w, j)'
  BY <1>1, <1>2 DEF Live, AtProvider
<1>8. Untouched' /\ SingleRun' /\ Settled' /\ DownIsIdle'
  BY <1>3, <1>5, <1>6, <1>7
     DEF IInv, Untouched, SingleRun, Settled, DownIsIdle, history
<1>9. LeaseCovers'
  <2>1. lease'[j] > task'[w][j].left
    BY <1>1, <1>2, <1>5, DeliveryAssumption
  <2>2. ASSUME NEW v \in Worker, NEW k \in Job, Live(v, k)', v # w \/ k # j
        PROVE  k \notin queued' \/ lease'[k] > task'[v][k].left
    BY <1>2, <1>3, <1>5, <1>6, <1>7, <2>2 DEF IInv, LeaseCovers
  <2> QED BY <2>1, <2>2 DEF LeaseCovers
<1>10. CounterCovers'
  BY <1>2, <1>3, <1>7 DEF IInv, CounterCovers, history
<1>11. SendBudget'
  BY <1>3 DEF IInv, SendBudget, history
<1>12. \A k \in Job : Pending(k)' <=> Pending(k)
  BY <1>1, <1>2, <1>3, <1>6, <1>7, RunShape DEF IInv, Pending, Stage
<1>13. SendsExplained'
  BY <1>3, <1>12 DEF IInv, SendsExplained, history
<1>14. CopiesCovered' /\ AnswerOnce'
  BY <1>1, <1>2, <1>3 DEF IInv, CopiesCovered, AnswerOnce, history
<1> QED BY <1>4, <1>8, <1>9, <1>10, <1>11, <1>13, <1>14 DEF IInv

(* The beginning of a run: with a payload its job_try is above every retry *)
(* and every provider call so far.                                         *)
LEMMA StartRunInv ==
  ASSUME IInv, NEW w \in Worker, NEW j \in Job, StartRun(w, j)
  PROVE  IInv'
<1> DEFINE r == task'[w][j]
           try == tries[j] + 1
<1>1. tries[j] \in Nat /\ task[w][j] \in Run /\ Live(w, j)
      /\ task[w][j].stage = "claimed"
  BY RunShape DEF StartRun, IInv, TypeOK, Stage
<1>2. /\ task' \in [Worker -> [Job -> Run \cup {Idle}]]
      /\ r \in Run /\ r.try = try /\ r.left = task[w][j].left
      /\ \A v \in Worker, k \in Job : v # w \/ k # j => task'[v][k] = task[v][k]
      /\ \/ /\ r.stage = "answered" /\ r.answer \in {"expired", "tries_exceeded", "invalid"}
            /\ sends' = sends
         \/ /\ r.stage = "sending" /\ j \in payload /\ try <= MaxTries
            /\ r.answer = "none"
            /\ sends' = [sends EXCEPT ![j] = @ + 1]
  <2> DEFINE Ended(a) == [stage |-> "answered", try |-> try, left |-> task[w][j].left,
                          answer |-> a, defer |-> 0]
             Sent == [stage |-> "sending", try |-> try, left |-> task[w][j].left,
                     answer |-> "none", defer |-> 0]
  <2>1. \A a \in Verdict : /\ Ended(a) \in Run /\ Ended(a).try = try
                           /\ Ended(a).stage = "answered" /\ Ended(a).answer = a
                           /\ Ended(a).left = task[w][j].left
    BY <1>1 DEF Run, Stage
  <2>2. /\ Sent \in Run /\ Sent.try = try /\ Sent.stage = "sending"
        /\ Sent.answer = "none" /\ Sent.left = task[w][j].left
    BY <1>1 DEF Run, Stage
  <2>3. \/ /\ \E a \in {"expired", "tries_exceeded", "invalid"} :
                task' = [task EXCEPT ![w][j] = Ended(a)]
           /\ sends' = sends
        \/ /\ task' = [task EXCEPT ![w][j] = Sent]
           /\ j \in payload /\ try <= MaxTries
           /\ sends' = [sends EXCEPT ![j] = @ + 1]
    BY DEF StartRun, Answered, Ends, IInv, TypeOK
  <2> HIDE DEF Ended, Sent
  <2>4. {"expired", "tries_exceeded", "invalid"} \subseteq Verdict
    BY DEF Verdict
  <2>5. TypeOK
    BY DEF IInv
  <2>6. CASE /\ \E a \in {"expired", "tries_exceeded", "invalid"} :
                  task' = [task EXCEPT ![w][j] = Ended(a)]
             /\ sends' = sends
    <3>1. PICK a \in {"expired", "tries_exceeded", "invalid"} :
            task' = [task EXCEPT ![w][j] = Ended(a)]
      BY <2>6
    <3>2. Ended(a) \in Run
      BY <2>1, <2>4
    <3>3. /\ task' \in [Worker -> [Job -> Run \cup {Idle}]] /\ r = Ended(a)
          /\ \A v \in Worker, k \in Job : v # w \/ k # j => task'[v][k] = task[v][k]
      BY <2>5, <3>1, <3>2, TaskUpdate, ZenonT(60)
    <3> QED BY <2>1, <2>4, <2>6, <3>2, <3>3
  <2>7. CASE /\ task' = [task EXCEPT ![w][j] = Sent]
             /\ j \in payload /\ try <= MaxTries
             /\ sends' = [sends EXCEPT ![j] = @ + 1]
    BY <2>2, <2>5, <2>7, TaskUpdate, ZenonT(60)
  <2> QED BY <2>3, <2>6, <2>7
<1> HIDE DEF r
<1>3. /\ UNCHANGED <<call, payload, queued, wait, lease, proc, verdict, copies,
                     retried, interrupted, blind, env>>
      /\ tries' = [tries EXCEPT ![j] = try]
  BY DEF StartRun
<1>4. TypeOK'
  BY <1>1, <1>2, <1>3 DEF IInv, TypeOK
<1>5. \A v \in Worker : v # w => ~Live(v, j)
  BY <1>1 DEF IInv, SingleRun
<1>6. \A v \in Worker, k \in Job :
        /\ Live(v, k)' <=> Live(v, k)
        /\ v # w \/ k # j => (AtProvider(v, k)' <=> AtProvider(v, k))
  BY <1>1, <1>2 DEF Live, AtProvider, r, Run, Idle, Stage
<1>7. call[j] \notin {"idle", "sending"} /\ verdict[j] = "none"
  BY <1>1 DEF IInv, Untouched, Settled
<1>8. \A k \in Job : k # j => sends'[k] = sends[k] /\ tries'[k] = tries[k]
  BY <1>2, <1>3 DEF IInv, TypeOK
<1>9. Untouched' /\ SingleRun' /\ Settled' /\ DownIsIdle'
  BY <1>3, <1>6, <1>7, <1>8 DEF IInv, Untouched, SingleRun, Settled, DownIsIdle
<1>10. LeaseCovers'
  BY <1>2, <1>3, <1>6 DEF IInv, LeaseCovers, r
<1>11. sends[j] \in Nat /\ retried[j] \in Nat /\ copies[j] \in Nat
       /\ interrupted[j] \in Nat /\ MaxTries \in Nat
  BY DeliveryAssumption DEF IInv, TypeOK
<1>12. \A v \in Worker : v # w => ~AtProvider(v, j)
  BY <1>5, RunShape DEF IInv
<1>13. CounterCovers'
  BY <1>1, <1>2, <1>3, <1>6, <1>8, <1>11, <1>12
     DEF IInv, TypeOK, CounterCovers, AtProvider, r
<1>14. ~Pending(j)
  BY <1>1, <1>5, <1>7, RunShape DEF IInv, Pending, AtProvider, Stage
<1>15. SendBudget'
  BY <1>2, <1>3, <1>8, <1>11, <1>14 DEF IInv, SendBudget, SendsExplained, CounterCovers, TypeOK
<1>16. \A k \in Job : Pending(k)' <=> (Pending(k) \/ k = j)
  BY <1>2, <1>3, <1>6 DEF Pending, AtProvider, r
<1>17. SendsExplained'
  BY <1>3, <1>8, <1>16 DEF IInv, SendsExplained
<1>18. CopiesCovered'
  <2>1. copies[j] <= sends[j]
    BY DEF IInv, CopiesCovered
  <2>2. ASSUME NEW v \in Worker, v # w
        PROVE  task[v][j].stage \notin Stage /\ task[v][j].answer = "none"
    BY <1>5, <2>2, RunShape DEF IInv
  <2>3. sends'[j] >= sends[j] /\ (r.stage = "sending" => sends'[j] = sends[j] + 1)
    BY <1>2, <1>11 DEF IInv, TypeOK
  <2>4. \A v \in Worker : v # w => task'[v][j] = task[v][j]
    BY <1>2
  <2>5. r.stage # "accepted" /\ r.answer # "delivered"
    BY <1>2
  <2>6. /\ copies'[j] <= sends'[j]
        /\ \A v \in Worker :
             /\ task'[v][j].stage = "sending" => copies'[j] < sends'[j]
             /\ task'[v][j].stage = "accepted" \/ task'[v][j].answer = "delivered"
                  => copies'[j] > 0
    <3>1. copies'[j] = copies[j] /\ sends'[j] \in Nat /\ copies'[j] <= sends'[j]
      BY <1>2, <1>3, <1>11, <2>1, <2>3 DEF IInv, TypeOK
    <3>2. r.stage = "sending" => copies'[j] < sends'[j]
      BY <1>11, <2>1, <2>3, <3>1
    <3> QED BY <2>2, <2>4, <2>5, <3>1, <3>2 DEF r, Stage
  <2> QED BY <1>2, <1>3, <1>8, <2>6 DEF IInv, CopiesCovered
<1>19. AnswerOnce'
  BY <1>2 DEF IInv, AnswerOnce, r
<1> QED BY <1>4, <1>9, <1>10, <1>13, <1>15, <1>17, <1>18, <1>19 DEF IInv

(* While a run is at the provider, its steps replace that run by another   *)
(* one with the same number and deadline and leave Redis alone: leases,    *)
(* exclusion and verdicts are not disturbed.                               *)
LEMMA AtProviderFrame ==
  ASSUME IInv, NEW w \in Worker, NEW j \in Job, NEW r \in Run,
         AtProvider(w, j), task' = [task EXCEPT ![w][j] = r],
         r.try = task[w][j].try, r.left = task[w][j].left,
         UNCHANGED <<call, redis, proc, verdict, sends, interrupted, env>>,
         \A k \in Job : k # j => retried'[k] = retried[k]
  PROVE  /\ Live(w, j) /\ call[j] \notin {"idle", "sending"} /\ verdict[j] = "none"
         /\ task' \in [Worker -> [Job -> Run \cup {Idle}]] /\ task'[w][j] = r
         /\ \A v \in Worker, k \in Job : v # w \/ k # j => task'[v][k] = task[v][k]
         /\ \A v \in Worker : v # w => ~Live(v, j) /\ task[v][j].answer = "none"
                                       /\ task[v][j].stage \notin Stage
         /\ Untouched' /\ SingleRun' /\ LeaseCovers' /\ Settled' /\ DownIsIdle'
<1>1. TypeOK /\ UNCHANGED <<payload, queued, wait, tries, lease>>
  BY DEF IInv, redis
<1>2. Live(w, j)
  BY <1>1, RunShape DEF AtProvider, Stage
<1>3. /\ task' \in [Worker -> [Job -> Run \cup {Idle}]] /\ task'[w][j] = r
      /\ \A v \in Worker, k \in Job : v # w \/ k # j => task'[v][k] = task[v][k]
  BY <1>1, TaskUpdate, ZenonT(60)
<1>4. \A v \in Worker : v # w => ~Live(v, j) /\ task[v][j].answer = "none"
                               /\ task[v][j].stage \notin Stage
  BY <1>1, <1>2, RunShape DEF IInv, SingleRun
<1>5. call[j] \notin {"idle", "sending"} /\ verdict[j] = "none"
  BY <1>2 DEF IInv, Untouched, Settled
<1>6. r # Idle
  BY DEF Run, Idle, Stage
<1>7. \A v \in Worker, k \in Job : Live(v, k)' <=> Live(v, k)
  BY <1>2, <1>3, <1>6 DEF Live
<1>8. Untouched' /\ SingleRun' /\ Settled' /\ DownIsIdle'
  BY <1>1, <1>5, <1>7 DEF IInv, Untouched, SingleRun, Settled, DownIsIdle
<1>9. LeaseCovers'
  BY <1>1, <1>3, <1>7 DEF IInv, LeaseCovers
<1> QED BY <1>2, <1>3, <1>4, <1>5, <1>8, <1>9

(* Delivering a copy: the provider call it belongs to is already counted.  *)
LEMMA ProviderDeliversInv ==
  ASSUME IInv, NEW w \in Worker, NEW j \in Job, ProviderDelivers(w, j)
  PROVE  IInv'
<1> DEFINE r == [task[w][j] EXCEPT !.stage = "accepted"]
<1>1. TypeOK /\ task[w][j] \in Run /\ AtProvider(w, j) /\ task[w][j].stage = "sending"
  BY RunShape DEF ProviderDelivers, IInv, AtProvider, Stage
<1>2. /\ r \in Run /\ r.try = task[w][j].try /\ r.left = task[w][j].left
      /\ r.stage = "accepted" /\ r.answer = task[w][j].answer
  BY <1>1 DEF Run, Stage
<1>3. task' = [task EXCEPT ![w][j] = r]
  BY <1>1 DEF ProviderDelivers, TypeOK
<1> HIDE DEF r
<1>4. UNCHANGED <<call, redis, proc, verdict, sends, retried, interrupted, blind, env>>
  BY DEF ProviderDelivers
<1>5. /\ Live(w, j) /\ verdict[j] = "none"
      /\ task' \in [Worker -> [Job -> Run \cup {Idle}]] /\ task'[w][j] = r
      /\ \A v \in Worker, k \in Job : v # w \/ k # j => task'[v][k] = task[v][k]
      /\ \A v \in Worker : v # w => ~Live(v, j) /\ task[v][j].answer = "none"
                                    /\ task[v][j].stage \notin Stage
      /\ Untouched' /\ SingleRun' /\ LeaseCovers' /\ Settled' /\ DownIsIdle'
  BY <1>1, <1>2, <1>3, <1>4, AtProviderFrame, ZenonT(60)
<1>6. /\ copies'[j] = copies[j] + 1
      /\ \A k \in Job : k # j => copies'[k] = copies[k]
      /\ copies' \in [Job -> Nat]
  BY <1>1 DEF ProviderDelivers, TypeOK
<1>7. TypeOK'
  BY <1>1, <1>4, <1>5, <1>6 DEF TypeOK, redis
<1>8. \A v \in Worker, k \in Job : AtProvider(v, k)' <=> AtProvider(v, k)
  BY <1>1, <1>2, <1>5 DEF AtProvider
<1>9. CounterCovers'
  BY <1>2, <1>4, <1>5, <1>8 DEF IInv, CounterCovers, redis
<1>10. SendBudget'
  BY <1>4 DEF IInv, SendBudget
<1>11. \A k \in Job : Pending(k) => Pending(k)'
  BY <1>1, <1>4, <1>5, <1>8 DEF Pending
<1>12. SendsExplained'
  BY <1>4, <1>11 DEF IInv, SendsExplained
<1>13. AnswerOnce'
  BY <1>1, <1>2, <1>5 DEF IInv, AnswerOnce
<1>14. CopiesCovered'
  <2>1. copies[j] < sends[j] /\ copies[j] \in Nat /\ sends[j] \in Nat
    BY <1>1 DEF IInv, CopiesCovered, TypeOK
  <2>2. copies'[j] <= sends'[j] /\ copies'[j] > 0
    BY <1>4, <1>6, <2>1
  <2>3. \A v \in Worker : task'[v][j].stage # "sending"
    BY <1>2, <1>5 DEF Stage
  <2> QED BY <1>4, <1>5, <1>6, <2>2, <2>3 DEF IInv, CopiesCovered
<1> QED BY <1>5, <1>7, <1>9, <1>10, <1>12, <1>13, <1>14 DEF IInv

(* The two ways a provider call ends: the frame they share.                *)
LEMMA AnsweredFrame ==
  ASSUME IInv, NEW w \in Worker, NEW j \in Job,
         NEW a \in Verdict \cup {"retry"}, NEW d \in Nat, AtProvider(w, j),
         task' = [task EXCEPT ![w][j] =
                    [stage |-> "answered", try |-> task[w][j].try,
                     left |-> task[w][j].left, answer |-> a, defer |-> d]],
         UNCHANGED <<call, redis, proc, verdict, sends, copies, interrupted, env>>,
         retried' \in [Job -> Nat], blind' \in [Job -> Nat],
         \A k \in Job : k # j => retried'[k] = retried[k],
         retried'[j] = IF a = "retry" THEN retried[j] + 1 ELSE retried[j],
         a = "retry" => task[w][j].try < MaxAttempts,
         a = "delivered" => task[w][j].stage = "accepted"
  PROVE  IInv'
<1> DEFINE r == [stage |-> "answered", try |-> task[w][j].try,
                 left |-> task[w][j].left, answer |-> a, defer |-> d]
<1>1. TypeOK /\ task[w][j] \in Run /\ task[w][j].try \in Nat /\ task[w][j].left \in Nat
  BY RunShape DEF IInv, AtProvider, Stage
<1>2. /\ r \in Run /\ r.try = task[w][j].try /\ r.left = task[w][j].left
      /\ r.stage = "answered" /\ r.answer = a
  BY <1>1 DEF Run, Stage
<1>3. task' = [task EXCEPT ![w][j] = r]
  OBVIOUS
<1> HIDE DEF r
<1>4. UNCHANGED <<call, payload, queued, wait, tries, lease, proc, verdict,
                  sends, copies, interrupted, env>>
  BY DEF redis
<1>5. /\ Live(w, j) /\ verdict[j] = "none"
      /\ task' \in [Worker -> [Job -> Run \cup {Idle}]] /\ task'[w][j] = r
      /\ \A v \in Worker, k \in Job : v # w \/ k # j => task'[v][k] = task[v][k]
      /\ \A v \in Worker : v # w => ~Live(v, j) /\ task[v][j].answer = "none"
                                    /\ task[v][j].stage \notin Stage
      /\ Untouched' /\ SingleRun' /\ LeaseCovers' /\ Settled' /\ DownIsIdle'
  <2>1. UNCHANGED <<call, redis, proc, verdict, sends, interrupted, env>>
    OBVIOUS
  <2>2. \A k \in Job : k # j => retried'[k] = retried[k]
    OBVIOUS
  <2> QED BY ONLY IInv, AtProvider(w, j), <1>2, <1>3, <2>1, <2>2, AtProviderFrame, ZenonT(60)
<1>6. TypeOK'
  BY <1>1, <1>4, <1>5 DEF TypeOK
<1>7. /\ \A v \in Worker, k \in Job : v # w \/ k # j =>
           (AtProvider(v, k)' <=> AtProvider(v, k))
      /\ \A v \in Worker : ~AtProvider(v, j)'
  BY <1>2, <1>5 DEF AtProvider, Stage
<1>8. /\ retried[j] \in Nat /\ retried[j] < task[w][j].try /\ MaxAttempts \in Nat
      /\ tries[j] \in Nat /\ sends[j] \in Nat /\ interrupted[j] \in Nat
      /\ j \in payload => task[w][j].try <= tries[j] /\ sends[j] <= tries[j]
  <2>1. /\ retried[j] \in Nat /\ MaxAttempts \in Nat /\ tries[j] \in Nat
        /\ sends[j] \in Nat /\ interrupted[j] \in Nat
    BY <1>1, PolicyAssumption DEF TypeOK
  <2>2. CounterCovers
    BY DEF IInv
  <2> QED BY <2>1, <2>2 DEF CounterCovers
<1>9. CounterCovers'
  <2>1. j \in payload => retried'[j] <= tries[j] /\ sends[j] <= tries[j]
    BY <1>1, <1>8
  <2>2. ASSUME NEW k \in Job, k # j
        PROVE  /\ k \in payload => retried'[k] <= tries[k] /\ sends[k] <= tries[k]
               /\ \A v \in Worker : AtProvider(v, k)' =>
                   /\ retried'[k] < task'[v][k].try
                   /\ k \in payload => task'[v][k].try <= tries[k]
    BY <1>5, <1>7, <2>2 DEF IInv, CounterCovers
  <2> QED BY <1>4, <1>7, <2>1, <2>2 DEF CounterCovers
<1>10. SendBudget'
  <2>1. /\ retried[j] < MaxAttempts /\ sends[j] <= retried[j] + interrupted[j] + 1
        /\ sends[j] <= MaxTries
    BY DEF IInv, SendBudget
  <2>2. retried'[j] < MaxAttempts /\ sends[j] <= retried'[j] + interrupted[j] + 1
    BY <1>1, <1>8, <2>1
  <2> QED BY <1>4, <2>1, <2>2 DEF IInv, SendBudget
<1>11. \A k \in Job : k # j => (Pending(k)' <=> Pending(k))
  BY <1>4, <1>5, <1>7 DEF Pending
<1>12. ~Pending(j)' => a = "retry"
  BY <1>2, <1>5 DEF Pending
<1>13. SendsExplained'
  <2>1. sends[j] <= retried[j] + interrupted[j] + 1
    BY DEF IInv, SendBudget
  <2>2. ~Pending(j)' => sends[j] <= retried'[j] + interrupted[j]
    BY <1>8, <1>12, <2>1
  <2> QED BY <1>4, <1>11, <2>2 DEF IInv, SendsExplained
<1>14. AnswerOnce'
  <2>1. r.answer # "none"
    BY <1>2 DEF Verdict
  <2> QED BY <1>2, <1>5, <2>1 DEF IInv, AnswerOnce
<1>15. CopiesCovered'
  <2>1. \A v \in Worker : task'[v][j].stage \notin {"sending", "accepted"}
    BY <1>2, <1>5 DEF Stage
  <2>2. ASSUME NEW v \in Worker, task'[v][j].answer = "delivered"
        PROVE  copies[j] > 0
    BY <1>2, <1>5, <2>2 DEF IInv, CopiesCovered
  <2> QED BY <1>4, <1>5, <2>1, <2>2 DEF IInv, CopiesCovered
<1> QED BY <1>5, <1>6, <1>9, <1>10, <1>13, <1>14, <1>15 DEF IInv

(* An answer ends the provider call: a retry is counted before its run     *)
(* may end, and only a delivered copy can be answered with a success.      *)
LEMMA AnswerInv ==
  ASSUME IInv, NEW w \in Worker, NEW j \in Job, Answer(w, j)
  PROVE  IInv'
<1>1. TypeOK /\ AtProvider(w, j) /\ task[w][j].try \in Nat
  BY RunShape DEF Answer, IInv, AtProvider, Stage
<1>2. PICK result \in IF task[w][j].stage = "accepted"
                     THEN ResultsWhenDelivered ELSE ResultsWhenUndelivered :
        LET r == Classify(result, task[w][j].try) IN
        /\ task' = Answered(w, j, r, task[w][j].try)
        /\ retried' = IF r.answer = "retry" THEN Bump(retried, {j}) ELSE retried
        /\ blind' = IF task[w][j].stage = "accepted" /\ result.code # "ok"
                    THEN Bump(blind, {j}) ELSE blind
  BY DEF Answer
<1> DEFINE a == Classify(result, task[w][j].try).answer
           d == Classify(result, task[w][j].try).defer
<1>3. /\ result \in Result
      /\ result.code = "ok" => task[w][j].stage = "accepted"
  BY <1>2, ResultTypes
<1>4. /\ a \in Verdict \cup {"retry"} /\ d \in Nat
      /\ a = "retry" => task[w][j].try < MaxAttempts
      /\ a = "delivered" => task[w][j].stage = "accepted"
  BY <1>1, <1>3, ClassifyType DEF Verdict
<1>5. /\ task' = [task EXCEPT ![w][j] =
                   [stage |-> "answered", try |-> task[w][j].try,
                    left |-> task[w][j].left, answer |-> a, defer |-> d]]
      /\ retried' = IF a = "retry" THEN Bump(retried, {j}) ELSE retried
      /\ blind' \in {blind, Bump(blind, {j})}
  BY <1>2 DEF Answered
<1> HIDE DEF a, d
<1>6. /\ retried' \in [Job -> Nat] /\ blind' \in [Job -> Nat]
      /\ \A k \in Job : k # j => retried'[k] = retried[k]
      /\ retried'[j] = IF a = "retry" THEN retried[j] + 1 ELSE retried[j]
  <2>1. retried \in [Job -> Nat] /\ blind \in [Job -> Nat]
    BY <1>1 DEF TypeOK
  <2>2. blind' \in [Job -> Nat]
    BY <1>5, <2>1, BumpType
  <2>3. CASE a = "retry"
    BY <1>5, <2>1, <2>2, <2>3, BumpType
  <2>4. CASE a # "retry"
    BY <1>5, <2>1, <2>2, <2>4
  <2> QED BY <2>3, <2>4
<1>7. UNCHANGED <<call, redis, proc, verdict, sends, copies, interrupted, env>>
  BY DEF Answer
<1> QED BY <1>1, <1>4, <1>5, <1>6, <1>7, AnsweredFrame

(* The job timeout ends the provider call with a verdict.                  *)
LEMMA RunTimesOutInv ==
  ASSUME IInv, NEW w \in Worker, NEW j \in Job, RunTimesOut(w, j)
  PROVE  IInv'
<1>1. TypeOK /\ AtProvider(w, j)
  BY DEF RunTimesOut, IInv
<1>2. /\ "timeout" \in Verdict \cup {"retry"} /\ 0 \in Nat
  BY DEF Verdict
<1>3. /\ task' = [task EXCEPT ![w][j] =
                   [stage |-> "answered", try |-> task[w][j].try,
                    left |-> task[w][j].left, answer |-> "timeout", defer |-> 0]]
      /\ UNCHANGED <<call, redis, proc, verdict, sends, copies, retried,
                     interrupted, env>>
      /\ blind' \in {blind, Bump(blind, {j})}
  BY DEF RunTimesOut, Answered, Ends
<1>4. retried' \in [Job -> Nat] /\ blind' \in [Job -> Nat]
  BY <1>1, <1>3, BumpType DEF TypeOK
<1> QED BY <1>1, <1>2, <1>3, <1>4, AnsweredFrame

(* A run leaves its worker: what all the ways of leaving share.            *)
LEMMA LeaveFrame ==
  ASSUME IInv, NEW w \in Worker, NEW j \in Job, Live(w, j),
         task' = [task EXCEPT ![w][j] = Idle]
  PROVE  /\ call[j] \notin {"idle", "sending"} /\ verdict[j] = "none"
         /\ task' \in [Worker -> [Job -> Run \cup {Idle}]]
         /\ \A v \in Worker, k \in Job : v # w \/ k # j => task'[v][k] = task[v][k]
         /\ \A v \in Worker : task'[v][j] = Idle /\ ~Live(v, j)' /\ ~AtProvider(v, j)'
         /\ \A v \in Worker, k \in Job : Live(v, k)' => Live(v, k)
         /\ SingleRun' /\ AnswerOnce'
<1>1. TypeOK
  BY DEF IInv
<1>2. /\ task' \in [Worker -> [Job -> Run \cup {Idle}]] /\ task'[w][j] = Idle
      /\ \A v \in Worker, k \in Job : v # w \/ k # j => task'[v][k] = task[v][k]
  BY <1>1, TaskUpdate, ZenonT(60)
<1>3. \A v \in Worker : v # w => task'[v][j] = Idle
  BY <1>2 DEF IInv, SingleRun, Live
<1>4. \A v \in Worker : task'[v][j] = Idle /\ ~Live(v, j)' /\ ~AtProvider(v, j)'
  BY <1>2, <1>3 DEF Live, AtProvider, Idle
<1>5. \A v \in Worker, k \in Job : Live(v, k)' => Live(v, k)
  BY <1>2, <1>4 DEF Live
<1>6. call[j] \notin {"idle", "sending"} /\ verdict[j] = "none"
  BY DEF IInv, Untouched, Settled
<1>7. SingleRun'
  BY <1>5 DEF IInv, SingleRun
<1>8. AnswerOnce'
  BY <1>2 DEF IInv, AnswerOnce, Idle
<1> QED BY <1>2, <1>4, <1>5, <1>6, <1>7, <1>8

(* Finishing: a retry puts the job back without its lease, a verdict       *)
(* removes it from Redis; either way its only run is gone.                 *)
LEMMA FinishInv ==
  ASSUME IInv, NEW w \in Worker, NEW j \in Job, Finish(w, j)
  PROVE  IInv'
<1>1. /\ TypeOK /\ Live(w, j) /\ task[w][j].stage = "answered"
      /\ task[w][j].defer \in Nat /\ task[w][j].answer \in Verdict \cup {"none", "retry"}
  <2>1. TypeOK /\ task[w][j].stage = "answered"
    BY DEF IInv, Finish
  <2>2. Live(w, j) /\ task[w][j] \in Run
    BY <2>1, RunShape DEF Stage
  <2> QED BY <2>1, <2>2 DEF Run
<1>2. /\ task' = [task EXCEPT ![w][j] = Idle]
      /\ lease' = [lease EXCEPT ![j] = 0]
      /\ UNCHANGED <<call, proc, sends, copies, retried, interrupted, blind, env>>
  BY DEF Finish, history
<1>3. /\ call[j] \notin {"idle", "sending"} /\ verdict[j] = "none"
      /\ task' \in [Worker -> [Job -> Run \cup {Idle}]]
      /\ \A v \in Worker, k \in Job : v # w \/ k # j => task'[v][k] = task[v][k]
      /\ \A v \in Worker : task'[v][j] = Idle /\ ~Live(v, j)' /\ ~AtProvider(v, j)'
      /\ \A v \in Worker, k \in Job : Live(v, k)' => Live(v, k)
      /\ SingleRun' /\ AnswerOnce'
  BY <1>1, <1>2, LeaveFrame
<1>4. \/ /\ task[w][j].answer = "retry" /\ queued' = queued \cup {j}
         /\ wait' = [wait EXCEPT ![j] = IF j \in queued THEN task[w][j].defer ELSE 0]
         /\ UNCHANGED <<payload, tries, verdict>>
      \/ /\ task[w][j].answer # "retry"
         /\ verdict' = [verdict EXCEPT ![j] = task[w][j].answer]
         /\ queued' = queued \ {j} /\ payload' = payload \ {j}
         /\ tries' = [tries EXCEPT ![j] = 0] /\ UNCHANGED wait
  BY DEF Finish
<1>5. task[w][j].answer # "retry" => task[w][j].answer \in Verdict \cup {"none"}
  BY <1>1
<1>6. TypeOK'
  <2>1. /\ payload' \subseteq Job /\ queued' \subseteq Job
        /\ wait' \in [Job -> Nat] /\ tries' \in [Job -> Nat] /\ lease' \in [Job -> Nat]
    BY <1>1, <1>2, <1>4 DEF TypeOK
  <2>2. verdict' \in [Job -> Verdict \cup {"none"}]
    BY <1>1, <1>4, <1>5 DEF TypeOK
  <2> QED BY <1>1, <1>2, <1>3, <2>1, <2>2 DEF TypeOK
<1>7. \A k \in Job : k # j =>
        /\ k \in queued' <=> k \in queued
        /\ k \in payload' <=> k \in payload
        /\ verdict'[k] = verdict[k] /\ tries'[k] = tries[k] /\ lease'[k] = lease[k]
  BY <1>1, <1>2, <1>4 DEF TypeOK
<1>8. /\ verdict'[j] # "none" => j \notin queued'
      /\ j \in payload' => j \in payload /\ tries'[j] = tries[j]
  BY <1>1, <1>3, <1>4 DEF TypeOK
<1>9. Untouched' /\ Settled' /\ DownIsIdle'
  BY <1>2, <1>3, <1>7, <1>8 DEF IInv, Untouched, Settled, DownIsIdle
<1>10. LeaseCovers'
  BY <1>3, <1>7 DEF IInv, LeaseCovers
<1>11. \A v \in Worker, k \in Job : k # j => (AtProvider(v, k)' <=> AtProvider(v, k))
  BY <1>3 DEF AtProvider
<1>12. CounterCovers'
  BY <1>2, <1>3, <1>7, <1>8, <1>11 DEF IInv, CounterCovers
<1>13. SendBudget'
  BY <1>2 DEF IInv, SendBudget
<1>14. \A k \in Job : k # j => (Pending(k)' <=> Pending(k))
  BY <1>3, <1>7, <1>11 DEF Pending
<1>15. SendsExplained'
  <2>1. CASE task[w][j].answer = "retry"
    <3>1. ~Pending(j)
      <4>1. \A v \in Worker : v # w => ~Live(v, j)
        BY <1>1 DEF IInv, SingleRun
      <4> QED BY <1>1, <1>3, <2>1, <4>1, RunShape DEF Pending, AtProvider, Stage
    <3> QED BY <1>2, <1>14, <3>1 DEF IInv, SendsExplained
  <2>2. CASE task[w][j].answer # "retry" /\ task[w][j].answer # "none"
    <3>1. Pending(j)'
      BY <1>1, <1>4, <2>2 DEF Pending, TypeOK
    <3> QED BY <1>2, <1>14, <3>1 DEF IInv, SendsExplained
  <2>3. task[w][j].answer # "none"
    BY <1>1 DEF IInv, AnswerOnce
  <2> QED BY <2>1, <2>2, <2>3
<1>16. CopiesCovered'
  BY <1>2, <1>3 DEF IInv, CopiesCovered, Idle
<1> QED BY <1>3, <1>6, <1>9, <1>10, <1>12, <1>13, <1>15, <1>16 DEF IInv

(* Cancelling: the job stays queued and the lost run is counted.           *)
LEMMA CancelInv ==
  ASSUME IInv, NEW w \in Worker, NEW j \in Job, Cancel(w, j)
  PROVE  IInv'
<1>1. TypeOK /\ Live(w, j)
  <2>1. TypeOK /\ task[w][j].stage \in Stage
    BY DEF IInv, Cancel, AtProvider, Stage
  <2> QED BY <2>1, RunShape
<1>2. /\ task' = [task EXCEPT ![w][j] = Idle]
      /\ interrupted' = Bump(interrupted, {j})
      /\ UNCHANGED <<call, payload, queued, wait, proc, verdict, sends, copies,
                     retried, env>>
      /\ tries' \in {tries, [tries EXCEPT ![j] = @ + 1]}
      /\ lease' \in {lease, [lease EXCEPT ![j] = 0]}
      /\ blind' \in {blind, Bump(blind, {j})}
  BY DEF Cancel
<1>3. /\ call[j] \notin {"idle", "sending"} /\ verdict[j] = "none"
      /\ task' \in [Worker -> [Job -> Run \cup {Idle}]]
      /\ \A v \in Worker, k \in Job : v # w \/ k # j => task'[v][k] = task[v][k]
      /\ \A v \in Worker : task'[v][j] = Idle /\ ~Live(v, j)' /\ ~AtProvider(v, j)'
      /\ \A v \in Worker, k \in Job : Live(v, k)' => Live(v, k)
      /\ SingleRun' /\ AnswerOnce'
  BY <1>1, <1>2, LeaveFrame
<1>4. /\ interrupted' \in [Job -> Nat] /\ blind' \in [Job -> Nat]
      /\ tries' \in [Job -> Nat] /\ lease' \in [Job -> Nat]
      /\ interrupted'[j] = interrupted[j] + 1 /\ tries'[j] >= tries[j]
      /\ \A k \in Job : k # j => /\ interrupted'[k] = interrupted[k]
                               /\ tries'[k] = tries[k] /\ lease'[k] = lease[k]
  <2>1. /\ interrupted \in [Job -> Nat] /\ blind \in [Job -> Nat]
        /\ tries \in [Job -> Nat] /\ lease \in [Job -> Nat]
    BY <1>1 DEF TypeOK
  <2>2. /\ interrupted' \in [Job -> Nat] /\ interrupted'[j] = interrupted[j] + 1
        /\ \A k \in Job : k # j => interrupted'[k] = interrupted[k]
    BY <1>2, <2>1, BumpType
  <2>3. blind' \in [Job -> Nat]
    BY <1>2, <2>1, BumpType
  <2>4. /\ tries' \in [Job -> Nat] /\ tries'[j] >= tries[j]
        /\ \A k \in Job : k # j => tries'[k] = tries[k]
    BY <1>2, <2>1
  <2>5. /\ lease' \in [Job -> Nat]
        /\ \A k \in Job : k # j => lease'[k] = lease[k]
    BY <1>2, <2>1
  <2> QED BY <2>2, <2>3, <2>4, <2>5
<1>5. TypeOK'
  BY <1>1, <1>2, <1>3, <1>4 DEF TypeOK
<1>6. Untouched' /\ Settled' /\ DownIsIdle'
  BY <1>2, <1>3 DEF IInv, Untouched, Settled, DownIsIdle
<1>7. LeaseCovers'
  <2>1. ASSUME NEW v \in Worker, NEW k \in Job, Live(v, k)'
        PROVE  k # j /\ Live(v, k) /\ task'[v][k] = task[v][k]
    BY <1>3, <2>1
  <2> QED BY <1>2, <1>4, <2>1 DEF IInv, LeaseCovers
<1>8. \A v \in Worker, k \in Job : k # j => (AtProvider(v, k)' <=> AtProvider(v, k))
  BY <1>3 DEF AtProvider
<1>9. /\ retried[j] \in Nat /\ sends[j] \in Nat /\ tries[j] \in Nat
      /\ interrupted[j] \in Nat /\ tries'[j] \in Nat
  BY <1>1, <1>4 DEF TypeOK
<1>10. CounterCovers'
  <2>1. j \in payload => retried[j] <= tries'[j] /\ sends[j] <= tries'[j]
    BY <1>4, <1>9 DEF IInv, CounterCovers
  <2> QED BY <1>2, <1>3, <1>4, <1>8, <2>1 DEF IInv, CounterCovers
<1>11. /\ retried[j] < MaxAttempts /\ sends[j] <= retried[j] + interrupted[j] + 1
       /\ sends[j] <= MaxTries
  BY DEF IInv, SendBudget
<1>12. sends[j] <= retried[j] + interrupted'[j]
  BY <1>4, <1>9, <1>11
<1>13. SendBudget'
  <2>1. sends[j] <= retried[j] + interrupted'[j] + 1
    BY <1>4, <1>9, <1>12
  <2> QED BY <1>2, <1>4, <1>11, <2>1 DEF IInv, SendBudget
<1>14. \A k \in Job : k # j => (Pending(k)' <=> Pending(k))
  BY <1>2, <1>3, <1>8 DEF Pending
<1>15. SendsExplained'
  BY <1>2, <1>4, <1>12, <1>14 DEF IInv, SendsExplained
<1>16. CopiesCovered'
  BY <1>2, <1>3 DEF IInv, CopiesCovered, Idle
<1> QED BY <1>3, <1>5, <1>6, <1>7, <1>10, <1>13, <1>15, <1>16 DEF IInv

(* Starting, stopping and leaving of a process touch no run and no key.    *)
LEMMA ProcessInv ==
  ASSUME IInv, NEW w \in Worker, Stop(w) \/ Exit(w) \/ Restart(w)
  PROVE  IInv'
<1>0. env \in [faults : 0..MaxFaults, losses : 0..MaxRedisLosses,
              outages : 0..MaxOutages]
      /\ proc \in [Worker -> {"up", "stopping", "down"}]
  BY DEF IInv, TypeOK
<1>1. /\ UNCHANGED <<call, payload, queued, wait, tries, lease, task, verdict,
                     sends, copies, retried, interrupted, blind>>
      /\ env' \in [faults : 0..MaxFaults, losses : 0..MaxRedisLosses,
                   outages : 0..MaxOutages]
      /\ proc' \in [Worker -> {"up", "stopping", "down"}]
  <2>1. CASE Stop(w)
    <3>1. env.faults + 1 \in 0..MaxFaults
      BY <1>0, <2>1, DeliveryAssumption DEF Stop
    <3> QED BY <1>0, <2>1, <3>1 DEF Stop, redis, history
  <2>2. CASE Exit(w) \/ Restart(w)
    BY <1>0, <2>2 DEF Exit, Restart, redis, history
  <2> QED BY <2>1, <2>2
<1>2. \A v \in Worker : proc'[v] = "down" => proc[v] = "down" \/ Runs(v) = {}
  BY DEF Stop, Exit, Restart, IInv, TypeOK
<1>3. TypeOK'
  BY <1>1 DEF IInv, TypeOK
<1>4. DownIsIdle'
  BY <1>1, <1>2 DEF IInv, DownIsIdle, Runs, Live
<1>5. /\ Untouched' /\ SingleRun' /\ LeaseCovers' /\ Settled' /\ AnswerOnce'
      /\ CounterCovers' /\ SendBudget' /\ SendsExplained' /\ CopiesCovered'
  BY <1>1 DEF IInv, Untouched, SingleRun, LeaseCovers, Settled, AnswerOnce, Live,
     CounterCovers, SendBudget, SendsExplained, CopiesCovered, Pending, AtProvider
<1> QED BY <1>3, <1>4, <1>5 DEF IInv

(* A crash drops every run of the process and counts each of them; leases  *)
(* and queue are as they were.                                             *)
LEMMA CrashInv ==
  ASSUME IInv, NEW w \in Worker, Crash(w)
  PROVE  IInv'
<1>1. /\ TypeOK
      /\ task' = [task EXCEPT ![w] = [j \in Job |-> Idle]]
      /\ proc' = [proc EXCEPT ![w] = "down"]
      /\ interrupted' = Bump(interrupted, Runs(w))
      /\ blind' = Bump(blind, UnrecordedCopies(w))
      /\ env.faults < MaxFaults /\ env' = [env EXCEPT !.faults = @ + 1]
      /\ UNCHANGED <<call, payload, queued, wait, tries, lease, verdict, sends,
                     copies, retried>>
  BY DEF Crash, IInv, redis
<1>2. /\ task' \in [Worker -> [Job -> Run \cup {Idle}]]
      /\ \A k \in Job : task'[w][k] = Idle
      /\ \A v \in Worker, k \in Job : v # w => task'[v][k] = task[v][k]
  BY <1>1 DEF TypeOK
<1>3. /\ interrupted' \in [Job -> Nat] /\ blind' \in [Job -> Nat]
      /\ \A k \in Job : interrupted'[k] = IF Live(w, k) THEN interrupted[k] + 1
                                                      ELSE interrupted[k]
  <2>1. interrupted \in [Job -> Nat] /\ blind \in [Job -> Nat]
    BY <1>1 DEF TypeOK
  <2>2. /\ Bump(interrupted, Runs(w)) \in [Job -> Nat]
        /\ Bump(blind, UnrecordedCopies(w)) \in [Job -> Nat]
    BY <2>1, BumpType
  <2>3. \A k \in Job : interrupted'[k] = IF k \in Runs(w) THEN interrupted[k] + 1
                                                        ELSE interrupted[k]
    BY <1>1 DEF Bump
  <2> QED BY <1>1, <2>2, <2>3 DEF Runs
<1>4. env' \in [faults : 0..MaxFaults, losses : 0..MaxRedisLosses,
               outages : 0..MaxOutages]
  <2>1. env \in [faults : 0..MaxFaults, losses : 0..MaxRedisLosses,
                outages : 0..MaxOutages]
    BY <1>1 DEF TypeOK
  <2>2. env.faults + 1 \in 0..MaxFaults
    BY <1>1, <2>1, DeliveryAssumption
  <2> QED BY <1>1, <2>1, <2>2
<1>5. TypeOK'
  BY <1>1, <1>2, <1>3, <1>4 DEF TypeOK
<1>6. \A v \in Worker, k \in Job :
        /\ Live(v, k)' <=> v # w /\ Live(v, k)
        /\ AtProvider(v, k)' <=> v # w /\ AtProvider(v, k)
  BY <1>2 DEF Live, AtProvider, Idle
<1>7. Untouched' /\ SingleRun' /\ Settled'
  BY <1>1, <1>6 DEF IInv, Untouched, SingleRun, Settled
<1>8. DownIsIdle'
  BY <1>1, <1>6 DEF IInv, DownIsIdle, TypeOK
<1>9. LeaseCovers'
  BY <1>1, <1>2, <1>6 DEF IInv, LeaseCovers
<1>10. AnswerOnce' /\ CopiesCovered'
  BY <1>1, <1>2 DEF IInv, AnswerOnce, CopiesCovered, Idle
<1>11. CounterCovers'
  BY <1>1, <1>2, <1>6 DEF IInv, CounterCovers
<1>12. ASSUME NEW k \in Job
       PROVE  /\ sends[k] \in Nat /\ retried[k] \in Nat /\ interrupted[k] \in Nat
              /\ interrupted'[k] \in Nat /\ interrupted'[k] >= interrupted[k]
              /\ Live(w, k) => interrupted'[k] = interrupted[k] + 1
              /\ retried[k] < MaxAttempts /\ sends[k] <= MaxTries
              /\ sends[k] <= retried[k] + interrupted[k] + 1
  BY <1>1, <1>3 DEF IInv, SendBudget, TypeOK
<1>13. SendBudget'
  <2>1. \A k \in Job : sends[k] <= retried[k] + interrupted'[k] + 1
    BY <1>12
  <2> QED BY <1>1, <1>12, <2>1 DEF SendBudget
<1>14. SendsExplained'
  <2> SUFFICES ASSUME NEW k \in Job, ~Pending(k)'
               PROVE  sends[k] <= retried[k] + interrupted'[k]
    BY <1>1 DEF SendsExplained
  <2>1. CASE Live(w, k)
    BY <1>12, <2>1
  <2>2. CASE ~Live(w, k)
    <3>1. ~Pending(k)
      <4>1. ~AtProvider(w, k) /\ task[w][k].stage # "answered"
        BY <1>1, <2>2, RunShape DEF Stage
      <4> QED BY <1>1, <1>2, <1>6, <4>1 DEF Pending
    <3> QED BY <1>12, <3>1 DEF IInv, SendsExplained
  <2> QED BY <2>1, <2>2
<1> QED BY <1>5, <1>7, <1>8, <1>9, <1>10, <1>11, <1>13, <1>14 DEF IInv

(* A tick: every run is at the provider with time left, so its lease,      *)
(* which is longer, loses one tick together with the run.                  *)
LEMMA TickInv ==
  ASSUME IInv, Tick
  PROVE  IInv'
<1>1. /\ TypeOK
      /\ \A w \in Worker, j \in Job :
           Live(w, j) => AtProvider(w, j) /\ task[w][j].left > 0
      /\ lease' = [j \in Job |-> Dec(lease[j])]
      /\ wait' = [j \in Job |-> Dec(wait[j])]
      /\ task' = [w \in Worker |-> [j \in Job |->
                    [task[w][j] EXCEPT !.left = Dec(@)]]]
      /\ UNCHANGED <<call, payload, queued, tries, proc, verdict, sends, copies,
                     retried, interrupted, blind, env>>
  BY DEF Tick, IInv, history
<1>2. \A n \in Nat : Dec(n) \in Nat /\ (n > 0 => Dec(n) = n - 1) /\ Dec(0) = 0
  BY DEF Dec
<1>3. ASSUME NEW w \in Worker, NEW j \in Job
      PROVE  /\ task'[w][j] \in Run \cup {Idle}
             /\ task'[w][j].stage = task[w][j].stage
             /\ task'[w][j].answer = task[w][j].answer
             /\ task'[w][j].try = task[w][j].try
             /\ Live(w, j)' <=> Live(w, j)
             /\ Live(w, j) => task'[w][j].left = task[w][j].left - 1
                              /\ task[w][j].left \in Nat /\ task[w][j].left > 0
  <2>1. task'[w][j] = [task[w][j] EXCEPT !.left = Dec(@)]
    BY <1>1
  <2>2. CASE Live(w, j)
    <3>1. task[w][j] \in Run /\ task[w][j].left \in Nat /\ task[w][j].left > 0
      BY <1>1, <2>2, RunShape
    <3>2. /\ task'[w][j] \in Run /\ task'[w][j].stage = task[w][j].stage
          /\ task'[w][j].answer = task[w][j].answer
          /\ task'[w][j].try = task[w][j].try
          /\ task'[w][j].left = task[w][j].left - 1
      BY <1>2, <2>1, <3>1 DEF Run
    <3>3. task'[w][j] # Idle
      BY <3>2 DEF Run, Idle, Stage
    <3> QED BY <2>2, <3>1, <3>2, <3>3 DEF Live
  <2>3. CASE ~Live(w, j)
    <3>1. task'[w][j] = Idle
      BY <1>2, <2>1, <2>3 DEF Live, Idle
    <3> QED BY <2>3, <3>1 DEF Live
  <2> QED BY <2>2, <2>3
<1>4. \A w \in Worker, j \in Job : AtProvider(w, j)' <=> AtProvider(w, j)
  BY <1>3 DEF AtProvider
<1>5. TypeOK'
  <2>1. task' \in [Worker -> [Job -> Run \cup {Idle}]]
    BY <1>1, <1>3
  <2>2. lease' \in [Job -> Nat] /\ wait' \in [Job -> Nat]
    BY <1>1, <1>2 DEF TypeOK
  <2> QED BY <1>1, <2>1, <2>2 DEF TypeOK
<1>6. Untouched' /\ SingleRun' /\ Settled' /\ DownIsIdle' /\ AnswerOnce'
  BY <1>1, <1>3 DEF IInv, Untouched, SingleRun, Settled, DownIsIdle, AnswerOnce
<1>7. LeaseCovers'
  <2> SUFFICES ASSUME NEW w \in Worker, NEW j \in Job, Live(w, j)', j \in queued
               PROVE  lease'[j] > task'[w][j].left
    BY <1>1 DEF LeaseCovers
  <2>1. lease[j] > task[w][j].left /\ lease[j] \in Nat
    BY <1>1, <1>3 DEF IInv, LeaseCovers, TypeOK
  <2>2. lease'[j] = lease[j] - 1
    BY <1>1, <1>2, <1>3, <2>1
  <2> QED BY <1>3, <2>1, <2>2
<1>8. CounterCovers' /\ SendBudget' /\ CopiesCovered'
  BY <1>1, <1>3, <1>4 DEF IInv, CounterCovers, SendBudget, CopiesCovered
<1>9. SendsExplained'
  <2>1. \A j \in Job : Pending(j)' <=> Pending(j)
    BY <1>1, <1>3, <1>4, ZenonT(60) DEF Pending
  <2> QED BY <1>1, <2>1 DEF IInv, SendsExplained
<1> QED BY <1>5, <1>6, <1>7, <1>8, <1>9 DEF IInv

(* Redis restarts empty: what was promised about its contents is void, and *)
(* runs of jobs it lost cannot be claimed again.                           *)
LEMMA RedisLossInv ==
  ASSUME IInv, RedisLoss
  PROVE  IInv'
<1>1. /\ TypeOK
      /\ env.losses < MaxRedisLosses /\ env' = [env EXCEPT !.losses = @ + 1]
      /\ payload' = {} /\ queued' = {}
      /\ wait' = [j \in Job |-> 0] /\ tries' = [j \in Job |-> 0]
      /\ lease' = [j \in Job |-> 0]
      /\ UNCHANGED <<call, proc, task, verdict, sends, copies, retried,
                     interrupted, blind>>
  BY DEF RedisLoss, IInv, history
<1>2. env' \in [faults : 0..MaxFaults, losses : 0..MaxRedisLosses,
               outages : 0..MaxOutages]
  <2>1. env \in [faults : 0..MaxFaults, losses : 0..MaxRedisLosses,
                outages : 0..MaxOutages]
    BY <1>1 DEF TypeOK
  <2>2. env.losses + 1 \in 0..MaxRedisLosses
    BY <1>1, <2>1, DeliveryAssumption
  <2> QED BY <1>1, <2>1, <2>2
<1>3. TypeOK'
  BY <1>1, <1>2 DEF TypeOK
<1>4. /\ Untouched' /\ SingleRun' /\ LeaseCovers' /\ Settled' /\ DownIsIdle'
      /\ AnswerOnce' /\ CounterCovers'
  BY <1>1 DEF IInv, Untouched, SingleRun, LeaseCovers, Settled, DownIsIdle,
              AnswerOnce, CounterCovers, Live, AtProvider
<1>5. SendBudget' /\ SendsExplained' /\ CopiesCovered'
  BY <1>1 DEF IInv, SendBudget, SendsExplained, CopiesCovered, Pending, AtProvider
<1> QED BY <1>3, <1>4, <1>5 DEF IInv

(* A day without workers: every process is down, so no run loses a lease.  *)
LEMMA OutageInv ==
  ASSUME IInv, Outage
  PROVE  IInv'
<1>1. /\ TypeOK /\ \A w \in Worker : proc[w] = "down"
      /\ env.outages < MaxOutages /\ env' = [env EXCEPT !.outages = @ + 1]
      /\ payload' \subseteq payload
      /\ wait' = [j \in Job |-> 0] /\ lease' = [j \in Job |-> 0]
      /\ UNCHANGED <<call, queued, tries, proc, task, verdict, sends, copies,
                     retried, interrupted, blind>>
  BY DEF Outage, IInv, history
<1>2. env' \in [faults : 0..MaxFaults, losses : 0..MaxRedisLosses,
               outages : 0..MaxOutages]
  <2>1. env \in [faults : 0..MaxFaults, losses : 0..MaxRedisLosses,
                outages : 0..MaxOutages]
    BY <1>1 DEF TypeOK
  <2>2. env.outages + 1 \in 0..MaxOutages
    BY <1>1, <2>1, DeliveryAssumption
  <2> QED BY <1>1, <2>1, <2>2
<1>3. TypeOK'
  BY <1>1, <1>2 DEF TypeOK
<1>4. \A w \in Worker, j \in Job : ~Live(w, j)
  BY <1>1 DEF IInv, DownIsIdle
<1>5. /\ Untouched' /\ SingleRun' /\ LeaseCovers' /\ Settled' /\ DownIsIdle'
      /\ AnswerOnce'
  BY <1>1, <1>4 DEF IInv, Untouched, SingleRun, LeaseCovers, Settled, DownIsIdle,
                    AnswerOnce, Live
<1>6. CounterCovers'
  BY <1>1 DEF IInv, CounterCovers, AtProvider
<1>7. SendBudget' /\ SendsExplained' /\ CopiesCovered'
  BY <1>1 DEF IInv, SendBudget, SendsExplained, CopiesCovered, Pending, AtProvider
<1> QED BY <1>3, <1>5, <1>6, <1>7 DEF IInv

(* Every step keeps the inductive invariant.                               *)
LEMMA NextInv == IInv /\ [Next]_vars => IInv'
<1> SUFFICES ASSUME IInv, [Next]_vars PROVE IInv'
  OBVIOUS
<1>1. CASE UNCHANGED vars
  <2>1. UNCHANGED <<call, payload, queued, wait, tries, lease, proc, task, verdict,
                    sends, copies, retried, interrupted, blind, env>>
    BY <1>1 DEF vars, redis, history
  <2> QED BY <2>1 DEF IInv, TypeOK, Untouched, SingleRun, LeaseCovers, Settled,
        DownIsIdle, AnswerOnce, CounterCovers, SendBudget, SendsExplained,
        CopiesCovered, Pending, AtProvider, Live
<1>2. ASSUME NEW j \in Job, EnqueueStep(j) PROVE IInv'
  BY <1>2, EnqueueInv
<1>3. ASSUME NEW w \in Worker, NEW j \in Job, RunStep(w, j) PROVE IInv'
  BY <1>3, ClaimInv, StartRunInv, ProviderDeliversInv, AnswerInv, RunTimesOutInv,
     FinishInv, CancelInv DEF RunStep
<1>4. ASSUME NEW w \in Worker, ProcessStep(w) PROVE IInv'
  BY <1>4, ProcessInv, CrashInv DEF ProcessStep
<1> QED BY <1>1, <1>2, <1>3, <1>4, TickInv, RedisLossInv, OutageInv DEF Next

(* So it holds in every reachable state.                                   *)
LEMMA Inductive == Spec => []IInv
BY InitInv, NextInv, PTL DEF Spec

-----------------------------------------------------------------------------
(* Safety *)

(* Every variable keeps its type, and the environment its bounds.          *)
THEOREM TypeCorrect == Spec => []TypeOK
<1>1. IInv => TypeOK
  BY DEF IInv
<1> QED BY <1>1, Inductive, PTL

(* Mutual exclusion: no two runs of one job are ever alive together, in    *)
(* any number of workers, whatever crashes, cancellations, retries, Redis  *)
(* restarts and outages occur (arq's in-progress key, worker.py:293).      *)
THEOREM NoConcurrentRuns == Spec => []SingleRun
<1>1. IInv => SingleRun
  BY DEF IInv
<1> QED BY <1>1, Inductive, PTL

(* The provider is called for a job at most once per retry, once per run   *)
(* that a stop or crash cut short, and once more, never more often than    *)
(* max_tries (worker.py:168 and 297).                                      *)
THEOREM SendsBounded == Spec => []SendBudget
<1>1. IInv => SendBudget
  BY DEF IInv
<1> QED BY <1>1, Inductive, PTL

(* As long as Redis keeps its data, a committed job is queued or has a     *)
(* verdict: no claim, retry, cancellation, crash or outage loses it.       *)
LEMMA NothingDroppedStep ==
  IInv /\ NothingDropped /\ [Next]_vars => NothingDropped'
<1> SUFFICES ASSUME IInv, NothingDropped, [Next]_vars,
                    env'.losses = 0, NEW j \in Job, Committed(j)'
             PROVE  j \in queued' \/ verdict'[j] # "none"
  BY DEF NothingDropped
<1>1. TypeOK
  BY DEF IInv
<1>2. CASE UNCHANGED vars
  BY <1>2 DEF vars, redis, NothingDropped, Committed
<1>3. ASSUME NEW k \in Job, EnqueueStep(k)
      PROVE  j \in queued' \/ verdict'[j] # "none"
  <2>1. /\ env' = env /\ verdict' = verdict /\ queued \subseteq queued'
        /\ Committed(j) \/ j \in queued'
    BY <1>1, <1>3 DEF EnqueueStep, EnqueueSend, EnqueueCommit, EnqueueReturn,
                      EnqueueRaise, redis, Committed, TypeOK, CallState
  <2> QED BY <2>1 DEF NothingDropped
<1>4. ASSUME NEW w \in Worker, NEW k \in Job, Finish(w, k)
      PROVE  j \in queued' \/ verdict'[j] # "none"
  <2>1. env' = env /\ call' = call /\ (j \in queued \/ verdict[j] # "none")
    BY <1>4 DEF Finish, NothingDropped, Committed
  <2>2. task[w][k].answer # "none"
    BY <1>4 DEF IInv, AnswerOnce, Finish
  <2> QED BY <1>1, <1>4, <2>1, <2>2 DEF Finish, TypeOK
<1>5. ASSUME NEW w \in Worker, NEW k \in Job, RunStep(w, k), ~Finish(w, k)
      PROVE  j \in queued' \/ verdict'[j] # "none"
  <2>1. UNCHANGED <<env, call, queued, verdict>>
    BY <1>5 DEF RunStep, Claim, StartRun, ProviderDelivers, Answer, RunTimesOut,
                Cancel, redis
  <2> QED BY <2>1 DEF NothingDropped, Committed
<1>6. ASSUME NEW w \in Worker, ProcessStep(w)
      PROVE  j \in queued' \/ verdict'[j] # "none"
  <2>1. UNCHANGED <<call, queued, verdict>> /\ env'.losses = env.losses
    BY <1>1, <1>6 DEF ProcessStep, Stop, Exit, Crash, Restart, redis, TypeOK
  <2> QED BY <2>1 DEF NothingDropped, Committed
<1>7. CASE Tick
  BY <1>7 DEF Tick, NothingDropped, Committed
<1>8. CASE RedisLoss
  BY <1>1, <1>8 DEF RedisLoss, TypeOK
<1>9. CASE Outage
  BY <1>1, <1>9 DEF Outage, TypeOK, NothingDropped, Committed
<1> QED BY <1>2, <1>3, <1>4, <1>5, <1>6, <1>7, <1>8, <1>9 DEF Next

(* No committed job disappears without a verdict while Redis keeps its     *)
(* data (NothingDropped), for any number of jobs, workers and faults.      *)
THEOREM CommittedJobsSurvive == Spec => []NothingDropped
<1>1. Init => NothingDropped
  BY DEF Init, NothingDropped, Committed
<1> QED BY <1>1, Inductive, NothingDroppedStep, PTL DEF Spec

-----------------------------------------------------------------------------
(* What a step may not do *)

(* The steps that can call a provider, deliver, queue or conclude need a   *)
(* live run or an enqueue in flight; a job with a verdict has neither.     *)
LEMMA VerdictFinalStep ==
  ASSUME IInv, [Next]_vars, NEW j \in Job, verdict[j] # "none"
  PROVE  /\ verdict'[j] = verdict[j] /\ sends'[j] = sends[j]
         /\ copies'[j] = copies[j] /\ j \notin queued'
<1>1. TypeOK /\ j \notin queued /\ \A w \in Worker : ~Live(w, j)
  BY DEF IInv, Settled
<1>2. call[j] # "sending"
  BY DEF IInv, Untouched
<1>3. CASE UNCHANGED vars
  BY <1>1, <1>3 DEF vars, redis, history
<1>4. ASSUME NEW k \in Job, EnqueueStep(k)
      PROVE  UNCHANGED <<verdict, sends, copies>> /\ j \notin queued'
  BY <1>1, <1>2, <1>4 DEF EnqueueStep, EnqueueSend, EnqueueCommit, EnqueueReturn,
                          EnqueueRaise, redis, history
<1>5. ASSUME NEW w \in Worker, NEW k \in Job, RunStep(w, k)
      PROVE  /\ verdict'[j] = verdict[j] /\ sends'[j] = sends[j]
             /\ copies'[j] = copies[j] /\ j \notin queued'
  <2>1. task[w][j].stage \notin Stage
    BY <1>1, RunShape
  <2>2. CASE Claim(w, k) \/ Answer(w, k) \/ RunTimesOut(w, k) \/ Cancel(w, k)
    BY <1>1, <2>2 DEF Claim, Answer, RunTimesOut, Cancel, redis, history
  <2>3. CASE StartRun(w, k)
    <3>1. k # j
      BY <2>1, <2>3 DEF StartRun, Stage
    <3> QED BY <1>1, <2>3, <3>1 DEF StartRun, TypeOK
  <2>4. CASE ProviderDelivers(w, k)
    <3>1. k # j
      BY <2>1, <2>4 DEF ProviderDelivers, Stage
    <3> QED BY <1>1, <2>4, <3>1 DEF ProviderDelivers, TypeOK, redis
  <2>5. CASE Finish(w, k)
    <3>1. k # j
      BY <2>1, <2>5 DEF Finish, Stage
    <3> QED BY <1>1, <2>5, <3>1 DEF Finish, TypeOK, history
  <2> QED BY <1>5, <2>2, <2>3, <2>4, <2>5 DEF RunStep
<1>6. ASSUME NEW w \in Worker, ProcessStep(w)
      PROVE  UNCHANGED <<verdict, sends, copies, queued>>
  BY <1>6 DEF ProcessStep, Stop, Exit, Crash, Restart, redis, history
<1>7. CASE Tick \/ RedisLoss \/ Outage
  BY <1>1, <1>7 DEF Tick, RedisLoss, Outage, history
<1> QED BY <1>1, <1>3, <1>4, <1>5, <1>6, <1>7 DEF Next

(* A recorded verdict is final: no later send, copy, queueing or verdict.  *)
THEOREM VerdictsAreFinal == Spec => VerdictFinal
<1>1. IInv /\ [Next]_vars =>
        [\A j \in Job : verdict[j] # "none" =>
            /\ verdict'[j] = verdict[j] /\ sends'[j] = sends[j]
            /\ copies'[j] = copies[j] /\ j \notin queued']_vars
  BY VerdictFinalStep
<1> QED BY <1>1, Inductive, PTL DEF Spec, VerdictFinal

-----------------------------------------------------------------------------
(* Duplicates *)

(* The run of j in w has delivered a copy that is not accounted yet.       *)
Carries(w, j) == task[w][j].stage = "accepted" \/ task[w][j].answer = "delivered"
Carried(j)    == \E w \in Worker : Carries(w, j)

Accounted(j) ==
  copies[j] <= blind[j] + (IF verdict[j] = "delivered" THEN 1 ELSE 0)
                 + (IF Carried(j) THEN 1 ELSE 0)

CopiesAccounted == \A j \in Job : Accounted(j)

(* A run that carries a copy is the only run of its job, so the workers    *)
(* that DuplicatesExplained counts are none or one.                        *)
LEMMA CarriersLive ==
  ASSUME IInv, NEW w \in Worker, NEW j \in Job
  PROVE  /\ Carries(w, j) => Live(w, j)
         /\ Live(w, j) => \A v \in Worker : v # w => ~Carries(v, j)
         /\ Carries(w, j) /\ AtProvider(w, j) => task[w][j].stage = "accepted"
         /\ Carries(w, j) => task[w][j].stage \in {"accepted", "answered"}
         /\ Carries(w, j) => verdict[j] = "none"
<1>1. \A v \in Worker : Carries(v, j) => Live(v, j)
  BY RunShape DEF Carries, IInv, Stage
<1>2. Live(w, j) => \A v \in Worker : v # w => ~Carries(v, j)
  BY <1>1 DEF IInv, SingleRun
<1>3. Carries(w, j) => task[w][j].stage \in {"accepted", "answered"}
  BY DEF Carries, IInv, AnswerOnce
<1>4. Carries(w, j) => verdict[j] = "none"
  BY <1>1 DEF IInv, Settled
<1> QED BY <1>1, <1>2, <1>3, <1>4 DEF AtProvider

(* Copies are counted in naturals.                                         *)
LEMMA CountersAre ==
  ASSUME TypeOK, NEW j \in Job PROVE copies[j] \in Nat /\ blind[j] \in Nat
BY DEF TypeOK

(* Steps that leave copies, blind and verdicts alone and do not lose one.  *)
LEMMA QuietlyAccounted ==
  ASSUME TypeOK, CopiesAccounted, UNCHANGED <<copies, blind, verdict>>,
         \A w \in Worker, j \in Job : Carries(w, j) => Carries(w, j)'
  PROVE  CopiesAccounted'
<1> SUFFICES ASSUME NEW j \in Job PROVE Accounted(j)'
  BY DEF CopiesAccounted
<1>1. Carried(j) => Carried(j)'
  BY DEF Carried
<1>2. copies[j] \in Nat /\ blind[j] \in Nat /\ Accounted(j)
  BY CountersAre DEF CopiesAccounted
<1> QED BY <1>1, <1>2 DEF Accounted

(* A step of the only run of a job: what it had, it has, or is accounted.  *)
LEMMA OneRunAccounted ==
  ASSUME IInv, CopiesAccounted, NEW w \in Worker, NEW j \in Job, Live(w, j),
         NEW r \in Run \cup {Idle}, task' = [task EXCEPT ![w][j] = r],
         \A k \in Job : k # j => /\ copies'[k] = copies[k] /\ blind'[k] = blind[k]
                                 /\ verdict'[k] = verdict[k],
         copies'[j] \in Nat, blind'[j] \in Nat,
         copies'[j] + blind[j] + (IF Carries(w, j) THEN 1 ELSE 0)
           <= copies[j] + blind'[j] + (IF verdict'[j] = "delivered" THEN 1 ELSE 0)
                + (IF r.stage = "accepted" \/ r.answer = "delivered" THEN 1 ELSE 0)
  PROVE  CopiesAccounted'
<1>0. TypeOK
  BY DEF IInv
<1>1. /\ task'[w][j] = r
      /\ \A v \in Worker, k \in Job : v # w \/ k # j => task'[v][k] = task[v][k]
  BY <1>0, TaskUpdate, ZenonT(60)
<1>2. ASSUME NEW k \in Job, k # j PROVE Accounted(k)'
  <2>1. Carried(k)' <=> Carried(k)
    BY <1>1, <1>2 DEF Carried, Carries
  <2> QED BY <1>2, <2>1 DEF CopiesAccounted, Accounted
<1>3. Accounted(j)'
  <2>1. \A v \in Worker : v # w => ~Carries(v, j) /\ ~Carries(v, j)'
    BY <1>1, CarriersLive DEF Carries
  <2>2. Carried(j) <=> Carries(w, j)
    BY <2>1 DEF Carried
  <2>3. Carried(j)' <=> r.stage = "accepted" \/ r.answer = "delivered"
    BY <1>1, <2>1 DEF Carried, Carries
  <2>4. copies[j] \in Nat /\ blind[j] \in Nat /\ verdict[j] = "none" /\ Accounted(j)
    BY <1>0, CountersAre DEF IInv, Settled, CopiesAccounted
  <2> QED BY <2>2, <2>3, <2>4 DEF Accounted
<1> QED BY <1>2, <1>3 DEF CopiesAccounted

(* A run delivers a copy and carries it, and when it stops carrying it has *)
(* recorded a success or was blind.                                        *)
LEMMA RunStepAccounted ==
  ASSUME IInv, CopiesAccounted, NEW w \in Worker, NEW j \in Job, RunStep(w, j)
  PROVE  CopiesAccounted'
<1>0. /\ TypeOK /\ copies \in [Job -> Nat] /\ blind \in [Job -> Nat]
      /\ task[w][j] \in Run \cup {Idle}
      /\ task[w][j].stage \in Stage => Live(w, j) /\ task[w][j] \in Run
  BY RunShape DEF IInv, TypeOK
<1>1. CASE Claim(w, j) \/ StartRun(w, j)
  <2>1. ~Carries(w, j)
    <3>1. CASE Claim(w, j)
      BY <3>1, CarriersLive DEF Claim
    <3>2. CASE StartRun(w, j)
      BY <3>2, CarriersLive DEF StartRun
    <3> QED BY <1>1, <3>1, <3>2
  <2>2. \E r : task' = [task EXCEPT ![w][j] = r]
    BY <1>1 DEF Claim, StartRun, Answered
  <2>3. \A v \in Worker, k \in Job : v # w \/ k # j => task'[v][k] = task[v][k]
    BY <1>0, <2>2 DEF TypeOK
  <2>4. \A v \in Worker, k \in Job : Carries(v, k) => Carries(v, k)'
    BY <2>1, <2>3 DEF Carries
  <2>5. UNCHANGED <<copies, blind, verdict>>
    BY <1>1 DEF Claim, StartRun, history
  <2> QED BY <1>0, <2>4, <2>5, QuietlyAccounted
<1>2. CASE ProviderDelivers(w, j)
  <2> DEFINE r == [task[w][j] EXCEPT !.stage = "accepted"]
  <2>1. task[w][j].stage = "sending" /\ Live(w, j) /\ task[w][j] \in Run
    BY <1>0, <1>2 DEF ProviderDelivers, Stage
  <2>2. r \in Run \cup {Idle} /\ r.stage = "accepted"
    BY <2>1 DEF Run, Stage
  <2>3. task' = [task EXCEPT ![w][j] = r]
    BY <1>2 DEF ProviderDelivers
  <2>4. ~Carries(w, j)
    BY <2>1, CarriersLive
  <2>5. /\ copies' = [copies EXCEPT ![j] = @ + 1] /\ UNCHANGED <<blind, verdict>>
    BY <1>2 DEF ProviderDelivers
  <2> HIDE DEF r
  <2>6. /\ copies'[j] = copies[j] + 1 /\ copies'[j] \in Nat
        /\ blind'[j] = blind[j] /\ blind[j] \in Nat /\ copies[j] \in Nat
        /\ \A k \in Job : k # j => copies'[k] = copies[k]
    BY <1>0, <2>5
  <2>7. copies'[j] + blind[j] + (IF Carries(w, j) THEN 1 ELSE 0)
          <= copies[j] + blind'[j] + (IF verdict'[j] = "delivered" THEN 1 ELSE 0)
               + (IF r.stage = "accepted" \/ r.answer = "delivered" THEN 1 ELSE 0)
    BY <2>2, <2>4, <2>6
  <2> QED BY <2>1, <2>2, <2>3, <2>5, <2>6, <2>7, OneRunAccounted
<1>3. CASE Answer(w, j)
  <2>1. PICK result \in IF task[w][j].stage = "accepted"
                       THEN ResultsWhenDelivered ELSE ResultsWhenUndelivered :
          LET r == Classify(result, task[w][j].try) IN
          /\ task' = Answered(w, j, r, task[w][j].try)
          /\ blind' = IF task[w][j].stage = "accepted" /\ result.code # "ok"
                      THEN Bump(blind, {j}) ELSE blind
    BY <1>3 DEF Answer
  <2> DEFINE c == Classify(result, task[w][j].try)
             r == [stage |-> "answered", try |-> task[w][j].try,
                   left |-> task[w][j].left, answer |-> c.answer, defer |-> c.defer]
  <2>2. AtProvider(w, j) /\ Live(w, j) /\ task[w][j] \in Run
    BY <1>0, <1>3 DEF Answer, AtProvider, Stage
  <2>3. /\ task[w][j].try \in Nat /\ task[w][j].left \in Nat /\ result \in Result
    BY <2>1, <2>2, ResultTypes DEF Run
  <2>4. c.answer \in Verdict \cup {"retry"} /\ c.defer \in Nat
    BY <2>3, ClassifyType DEF Verdict
  <2>5. result.code = "ok" => c.answer = "delivered"
    BY DEF Classify, Ends
  <2>6. task' = [task EXCEPT ![w][j] = r] /\ UNCHANGED <<copies, verdict>>
    BY <1>3, <2>1 DEF Answered, Answer
  <2>7. Carries(w, j) => task[w][j].stage = "accepted"
    BY <2>2, CarriersLive
  <2> HIDE DEF c
  <2>8. r \in Run \cup {Idle} /\ r.answer = c.answer
    BY <2>3, <2>4 DEF Run, Stage
  <2>9. /\ blind' \in [Job -> Nat]
        /\ \A k \in Job : k # j => blind'[k] = blind[k]
        /\ blind'[j] >= blind[j]
        /\ task[w][j].stage = "accepted" /\ result.code # "ok" => blind'[j] = blind[j] + 1
    BY <1>0, <2>1, BumpType
  <2> HIDE DEF r
  <2>10. copies'[j] + blind[j] + (IF Carries(w, j) THEN 1 ELSE 0)
           <= copies[j] + blind'[j] + (IF verdict'[j] = "delivered" THEN 1 ELSE 0)
                + (IF r.stage = "accepted" \/ r.answer = "delivered" THEN 1 ELSE 0)
    BY <1>0, <2>5, <2>6, <2>7, <2>8, <2>9
  <2> QED BY <1>0, <2>2, <2>6, <2>8, <2>9, <2>10, OneRunAccounted
<1>4. CASE RunTimesOut(w, j)
  <2> DEFINE r == [stage |-> "answered", try |-> task[w][j].try,
                   left |-> task[w][j].left, answer |-> "timeout", defer |-> 0]
  <2>1. AtProvider(w, j) /\ Live(w, j) /\ task[w][j] \in Run
    BY <1>0, <1>4 DEF RunTimesOut, AtProvider, Stage
  <2>2. r \in Run \cup {Idle}
    BY <2>1 DEF Run, Stage, Verdict
  <2>3. task' = [task EXCEPT ![w][j] = r] /\ UNCHANGED <<copies, verdict>>
    BY <1>4 DEF RunTimesOut, Answered, Ends
  <2>4. Carries(w, j) => task[w][j].stage = "accepted"
    BY <2>1, CarriersLive
  <2>5. /\ blind' \in [Job -> Nat]
        /\ \A k \in Job : k # j => blind'[k] = blind[k]
        /\ blind'[j] >= blind[j]
        /\ task[w][j].stage = "accepted" => blind'[j] = blind[j] + 1
    BY <1>0, <1>4, BumpType DEF RunTimesOut
  <2> HIDE DEF r
  <2>6. copies'[j] + blind[j] + (IF Carries(w, j) THEN 1 ELSE 0)
           <= copies[j] + blind'[j] + (IF verdict'[j] = "delivered" THEN 1 ELSE 0)
                + (IF r.stage = "accepted" \/ r.answer = "delivered" THEN 1 ELSE 0)
    BY <1>0, <2>3, <2>4, <2>5
  <2> QED BY <1>0, <2>1, <2>2, <2>3, <2>5, <2>6, OneRunAccounted
<1>5. CASE Finish(w, j)
  <2>1. task[w][j].stage = "answered" /\ Live(w, j)
    BY <1>0, <1>5 DEF Finish, Stage
  <2>2. task' = [task EXCEPT ![w][j] = Idle] /\ UNCHANGED <<copies, blind>>
    BY <1>5 DEF Finish, history
  <2>3. /\ \A k \in Job : k # j => verdict'[k] = verdict[k]
        /\ task[w][j].answer = "delivered" => verdict'[j] = "delivered"
    BY <1>0, <1>5 DEF Finish, TypeOK
  <2>4. copies'[j] + blind[j] + (IF Carries(w, j) THEN 1 ELSE 0)
           <= copies[j] + blind'[j] + (IF verdict'[j] = "delivered" THEN 1 ELSE 0)
                + (IF Idle.stage = "accepted" \/ Idle.answer = "delivered" THEN 1 ELSE 0)
    BY <1>0, <2>1, <2>2, <2>3 DEF Carries, Idle
  <2> QED BY <1>0, <2>1, <2>2, <2>3, <2>4, OneRunAccounted
<1>6. CASE Cancel(w, j)
  <2>1. task[w][j].stage \in {"claimed", "sending", "accepted"} /\ Live(w, j)
    BY <1>0, <1>6 DEF Cancel, AtProvider, Stage
  <2>2. task' = [task EXCEPT ![w][j] = Idle] /\ UNCHANGED <<copies, verdict>>
    BY <1>6 DEF Cancel
  <2>3. Carries(w, j) => task[w][j].stage = "accepted"
    BY <2>1, CarriersLive
  <2>4. /\ blind' \in [Job -> Nat]
        /\ \A k \in Job : k # j => blind'[k] = blind[k]
        /\ blind'[j] >= blind[j]
        /\ task[w][j].stage = "accepted" => blind'[j] = blind[j] + 1
    BY <1>0, <1>6, BumpType DEF Cancel
  <2>5. copies'[j] + blind[j] + (IF Carries(w, j) THEN 1 ELSE 0)
           <= copies[j] + blind'[j] + (IF verdict'[j] = "delivered" THEN 1 ELSE 0)
                + (IF Idle.stage = "accepted" \/ Idle.answer = "delivered" THEN 1 ELSE 0)
    BY <1>0, <2>2, <2>3, <2>4
  <2> QED BY <1>0, <2>1, <2>2, <2>4, <2>5, OneRunAccounted
<1> QED BY <1>1, <1>2, <1>3, <1>4, <1>5, <1>6 DEF RunStep

(* A crash is blind to the copies of all the runs it ends.                 *)
LEMMA CrashAccounted ==
  ASSUME IInv, CopiesAccounted, NEW w \in Worker, Crash(w)
  PROVE  CopiesAccounted'
<1>0. /\ TypeOK /\ blind \in [Job -> Nat] /\ UNCHANGED <<copies, verdict>>
      /\ blind' = Bump(blind, {k \in Job : Carries(w, k)})
      /\ \A v \in Worker, k \in Job : v # w => task'[v][k] = task[v][k]
  BY DEF IInv, TypeOK, Crash, UnrecordedCopies, Carries
<1> SUFFICES ASSUME NEW j \in Job PROVE Accounted(j)'
  BY DEF CopiesAccounted
<1>1. copies[j] \in Nat /\ blind[j] \in Nat /\ Accounted(j)
  BY <1>0, CountersAre DEF CopiesAccounted
<1>2. CASE Carries(w, j)
  <2>1. blind'[j] = blind[j] + 1
    BY <1>0, <1>2, BumpType
  <2> QED BY <1>0, <1>1, <2>1 DEF Accounted
<1>3. CASE ~Carries(w, j)
  <2>1. blind'[j] = blind[j]
    BY <1>0, <1>3, BumpType
  <2>2. Carried(j) => Carried(j)'
    BY <1>0, <1>3 DEF Carried, Carries
  <2> QED BY <1>0, <1>1, <2>1, <2>2 DEF Accounted
<1> QED BY <1>2, <1>3

(* Only runs and crashes touch copies.                                     *)
LEMMA AccountedStep == IInv /\ CopiesAccounted /\ [Next]_vars => CopiesAccounted'
<1> SUFFICES ASSUME IInv, CopiesAccounted, [Next]_vars PROVE CopiesAccounted'
  OBVIOUS
<1>0. TypeOK
  BY DEF IInv
<1>1. CASE Tick
  <2>1. ASSUME NEW w \in Worker, NEW j \in Job, Carries(w, j) PROVE Carries(w, j)'
    <3>1. task'[w][j] = [task[w][j] EXCEPT !.left = Dec(@)]
      BY <1>1 DEF Tick
    <3>2. task[w][j] \in Run \cup {Idle}
      BY <1>0, RunShape
    <3> QED BY <2>1, <3>1, <3>2 DEF Carries, Run, Idle
  <2> QED BY <1>0, <1>1, <2>1, QuietlyAccounted DEF Tick, history
<1>2. CASE UNCHANGED <<task, copies, blind, verdict>>
  <2>1. \A w \in Worker, j \in Job : Carries(w, j) => Carries(w, j)'
    BY <1>2 DEF Carries
  <2> QED BY <1>0, <1>2, <2>1, QuietlyAccounted
<1>3. ASSUME NEW j \in Job, EnqueueStep(j) PROVE UNCHANGED <<task, copies, blind, verdict>>
  BY <1>3 DEF EnqueueStep, EnqueueSend, EnqueueCommit, EnqueueReturn, EnqueueRaise, history
<1>4. ASSUME NEW w \in Worker, ProcessStep(w), ~Crash(w)
      PROVE  UNCHANGED <<task, copies, blind, verdict>>
  BY <1>4 DEF ProcessStep, Stop, Exit, Restart, history
<1>5. RedisLoss \/ Outage \/ UNCHANGED vars => UNCHANGED <<task, copies, blind, verdict>>
  BY DEF RedisLoss, Outage, vars, history
<1> QED BY <1>1, <1>2, <1>3, <1>4, <1>5, RunStepAccounted, CrashAccounted DEF Next

(* So every copy is accounted for in every reachable state.                *)
LEMMA AlwaysAccounted == Spec => []CopiesAccounted
<1>1. Init => CopiesAccounted
  BY DEF Init, CopiesAccounted, Accounted, Carried, Carries, Idle
<1> QED BY <1>1, AccountedStep, Inductive, PTL DEF Spec

(* Every delivered copy of a job but one is a copy whose success never got *)
(* back to a finished run (worker.py:120-206, arq's job_timeout): in every *)
(* history of crashes, cancelled runs, lost answers and Redis restarts.    *)
THEOREM DuplicatesHaveReasons == Spec => []DuplicatesExplained
<1>1. ASSUME IInv, CopiesAccounted PROVE DuplicatesExplained
  <2> SUFFICES ASSUME NEW j \in Job
               PROVE  copies[j] <= blind[j] + (IF verdict[j] = "delivered" THEN 1 ELSE 0)
                        + Cardinality({w \in Worker : Carries(w, j)})
    BY DEF DuplicatesExplained, Carries
  <2>1. copies[j] \in Nat /\ blind[j] \in Nat /\ Accounted(j)
    BY <1>1, CountersAre DEF IInv, CopiesAccounted
  <2>2. CASE Carried(j)
    <3>1. PICK w \in Worker : Carries(w, j)
      BY <2>2 DEF Carried
    <3>2. {v \in Worker : Carries(v, j)} = {w}
      BY <1>1, <3>1, CarriersLive
    <3>3. Cardinality({v \in Worker : Carries(v, j)}) = 1
      BY <3>2, FS_Singleton
    <3> QED BY <2>1, <2>2, <3>3 DEF Accounted
  <2>3. CASE ~Carried(j)
    <3>1. {v \in Worker : Carries(v, j)} = {}
      BY <2>3 DEF Carried
    <3>2. Cardinality({v \in Worker : Carries(v, j)}) = 0
      BY <3>1, FS_EmptySet
    <3> QED BY <2>1, <2>3, <3>2 DEF Accounted
  <2> QED BY <2>2, <2>3
<1> QED BY <1>1, Inductive, AlwaysAccounted, PTL

-----------------------------------------------------------------------------
(* Delivery implements DeliveryPromise *)

(* The abstract promise starts with nothing requested.                     *)
LEMMA PromiseInit == Init => Promise!Init
BY DEF Init, Promise!Init

(* Every step of the machinery is a step of the promise or a stutter: the  *)
(* inductive invariant shows that copies are received, and outcomes        *)
(* concluded, only while a notification is open.                           *)
LEMMA PromiseStep == IInv /\ [Next]_vars => [Promise!Next]_(Promise!promise)
<1> SUFFICES ASSUME IInv, [Next]_vars
             PROVE  Promise!Next \/ UNCHANGED Promise!promise
  BY DEF Promise!promise
<1>1. TypeOK
  BY DEF IInv
<1>2. ASSUME UNCHANGED <<call, copies, verdict>>
      PROVE  UNCHANGED Promise!promise
  BY <1>2 DEF Promise!promise
<1>3. CASE UNCHANGED vars
  BY <1>2, <1>3 DEF vars, history
<1>4. ASSUME NEW j \in Job, EnqueueStep(j)
      PROVE  Promise!Next \/ UNCHANGED Promise!promise
  <2>1. UNCHANGED <<copies, verdict>>
    BY <1>4 DEF EnqueueStep, EnqueueSend, EnqueueCommit, EnqueueReturn,
                EnqueueRaise, history
  <2>2. CASE EnqueueSend(j)
    <3>1. /\ {k \in Job : call'[k] # "idle"} = {k \in Job : call[k] # "idle"} \cup {j}
          /\ {k \in Job : call'[k] = "returned"} = {k \in Job : call[k] = "returned"}
      BY <1>1, <2>2 DEF EnqueueSend, TypeOK
    <3>2. Promise!Request(j)
      BY <2>1, <3>1 DEF Promise!Request
    <3> QED BY <3>2 DEF Promise!Next
  <2>3. CASE EnqueueReturn(j)
    <3>1. /\ {k \in Job : call'[k] # "idle"} = {k \in Job : call[k] # "idle"}
          /\ {k \in Job : call'[k] = "returned"}
               = {k \in Job : call[k] = "returned"} \cup {j}
          /\ call[j] # "idle"
      BY <1>1, <2>3 DEF EnqueueReturn, TypeOK
    <3>2. Promise!Acknowledge(j)
      BY <2>1, <3>1 DEF Promise!Acknowledge
    <3> QED BY <3>2 DEF Promise!Next
  <2>4. CASE EnqueueCommit(j) \/ EnqueueRaise(j)
    <3>1. /\ {k \in Job : call'[k] # "idle"} = {k \in Job : call[k] # "idle"}
          /\ {k \in Job : call'[k] = "returned"} = {k \in Job : call[k] = "returned"}
      BY <1>1, <2>4 DEF EnqueueCommit, EnqueueRaise, TypeOK
    <3> QED BY <2>1, <3>1 DEF Promise!promise
  <2> QED BY <1>4, <2>2, <2>3, <2>4 DEF EnqueueStep
<1>5. ASSUME NEW w \in Worker, NEW j \in Job, ProviderDelivers(w, j)
      PROVE  Promise!Next
  <2>1. UNCHANGED <<call, verdict>> /\ copies' = [copies EXCEPT ![j] = @ + 1]
    BY <1>5 DEF ProviderDelivers
  <2>2. Live(w, j)
    BY <1>1, <1>5, RunShape DEF ProviderDelivers, Stage
  <2>3. call[j] # "idle" /\ verdict[j] = "none"
    BY <2>2 DEF IInv, Untouched, Settled
  <2>4. copies[j] < MaxTries
    <3>1. copies[j] < sends[j] /\ sends[j] <= MaxTries
      BY <1>5 DEF ProviderDelivers, IInv, CopiesCovered, SendBudget
    <3>2. copies[j] \in Nat /\ sends[j] \in Nat /\ MaxTries \in Nat
      BY <1>1, DeliveryAssumption DEF TypeOK
    <3> QED BY <3>1, <3>2
  <2>5. Promise!Receive(j)
    BY <2>1, <2>3, <2>4 DEF Promise!Receive, Promise!Open
  <2> QED BY <2>5 DEF Promise!Next
<1>6. ASSUME NEW w \in Worker, NEW j \in Job, Finish(w, j)
      PROVE  Promise!Next \/ UNCHANGED Promise!promise
  <2>1. UNCHANGED <<call, copies>>
    BY <1>6 DEF Finish, history
  <2>2. CASE verdict' = verdict
    BY <1>2, <2>1, <2>2
  <2>3. CASE verdict' = [verdict EXCEPT ![j] = task[w][j].answer]
             /\ task[w][j].answer # "retry"
    <3>1. Live(w, j) /\ task[w][j] \in Run /\ task[w][j].answer # "none"
      BY <1>1, <1>6, RunShape DEF Finish, Stage, IInv, AnswerOnce
    <3>2. call[j] # "idle" /\ verdict[j] = "none"
      BY <3>1 DEF IInv, Untouched, Settled
    <3>3. task[w][j].answer \in Verdict
      BY <2>3, <3>1 DEF Run
    <3>4. task[w][j].answer = "delivered" => copies[j] > 0
      BY DEF IInv, CopiesCovered
    <3>5. Promise!Conclude(j)
      BY <2>1, <2>3, <3>2, <3>3, <3>4 DEF Promise!Conclude, Promise!Open
    <3> QED BY <3>5 DEF Promise!Next
  <2> QED BY <1>6, <2>2, <2>3 DEF Finish
<1>7. ASSUME NEW w \in Worker, NEW j \in Job, RunStep(w, j)
      PROVE  Promise!Next \/ UNCHANGED Promise!promise
  <2>1. CASE Claim(w, j) \/ StartRun(w, j) \/ Answer(w, j) \/ RunTimesOut(w, j)
             \/ Cancel(w, j)
    BY <1>2, <2>1 DEF Claim, StartRun, Answer, RunTimesOut, Cancel, history
  <2> QED BY <1>5, <1>6, <1>7, <2>1 DEF RunStep
<1>8. ASSUME NEW w \in Worker, ProcessStep(w)
      PROVE  UNCHANGED Promise!promise
  BY <1>2, <1>8 DEF ProcessStep, Stop, Exit, Crash, Restart, history
<1>9. CASE Tick \/ RedisLoss \/ Outage
  BY <1>2, <1>9 DEF Tick, RedisLoss, Outage, history
<1> QED BY <1>3, <1>4, <1>7, <1>8, <1>9 DEF Next

(* At-least-once delivery: whatever callers, workers, Redis and the        *)
(* environment do, each recipient gets at most max_tries copies, none      *)
(* after the outcome is recorded, "delivered" is recorded only after a     *)
(* copy, and an outcome never changes.                                     *)
THEOREM DeliveryImplementsPromise == Spec => AtLeastOnce
BY PromiseInit, PromiseStep, Inductive, PTL
   DEF Spec, AtLeastOnce, Promise!Spec

=============================================================================
