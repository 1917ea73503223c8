------------------------------- MODULE Provider -------------------------------
(***************************************************************************)
(* One provider call, from the HTTP exchange of notifications/_botapi.py   *)
(* through the normalisation of NotificationDispatcher._deliver to the     *)
(* classification at the end of worker.deliver_notification.               *)
(***************************************************************************)
EXTENDS RetryPolicy

(* NotificationResult: success is the code "ok", a failure without an      *)
(* error_code is "none"; the hint is what its message text carries.        *)
Code == {"ok", "none", "provider_unavailable", "provider_error",
         "notification_rejected", "message_too_long"}

Result == [code : Code, hint : Int]

Success == [code |-> "ok", hint |-> NoHint]

Failure(code, hint) == [code |-> code, hint |-> hint]

(* Situations in which no HTTP response reaches send_bot_api_message:      *)
(* the call is refused locally (no token, text over the limit), the        *)
(* transport fails, or something unexpected is raised on the way.          *)
LocalFailures == {"no_token", "message_too_long"}
TransportFailures == {"timeout", "unreachable", "crash"}

NoResponse(situation) ==
  IF situation = "message_too_long" THEN Failure("message_too_long", NoHint)
  ELSE IF situation = "crash" THEN Failure("provider_error", NoHint)
  ELSE Failure("provider_unavailable", NoHint)

(* A response below 400 is a success only when its envelope says ok and    *)
(* carries a message id.  Mutant: any such response will do.               *)
AnyEnvelope(envelope) == TRUE

Confirms(envelope) == envelope = "ok"

(* The status ladder of send_bot_api_message, in its order.                *)
Response(status, envelope, wait) ==
  IF status = 429 THEN Failure("provider_unavailable", HintOf(wait))
  ELSE IF status >= 500 \/ status = 401
       THEN Failure("provider_unavailable", NoHint)
  ELSE IF status >= 400 THEN Failure("notification_rejected", NoHint)
  ELSE IF Confirms(envelope) THEN Success
  ELSE Failure("provider_unavailable", NoHint)

Retryable(result) ==
  result.code \in {"none", "provider_unavailable", "provider_error"}

(* What deliver_notification makes of a result on run number try: the      *)
(* verdict the job ends with, or "retry" and the wait until the next run.  *)
Ends(verdict) == [answer |-> verdict, defer |-> 0]

(* Mutant: one attempt too many.                                           *)
AttemptsExceeded(try) == try > MaxAttempts

AttemptsSpent(try) == try >= MaxAttempts

(* Mutant: a success does not return.                                      *)
SuccessFallsThrough(result, try) ==
  IF ~Retryable(result) /\ result.code # "ok" THEN Ends("rejected")
  ELSE IF AttemptsSpent(try) THEN Ends("exhausted")
  ELSE [answer |-> "retry", defer |-> DelayFor(try + 1, result.hint)]

Classify(result, try) ==
  IF result.code = "ok" THEN Ends("delivered")
  ELSE IF ~Retryable(result) THEN Ends("rejected")
  ELSE IF AttemptsSpent(try) THEN Ends("exhausted")
  ELSE [answer |-> "retry", defer |-> DelayFor(try + 1, result.hint)]

=============================================================================
