----------------------------- MODULE RetryPolicy -----------------------------
(***************************************************************************)
(* The bounded back-off of app/worker/retry.py, and the rate-limit hint    *)
(* that app/worker/worker.py recovers from a provider's diagnostic text.   *)
(*                                                                         *)
(* Durations are integers in whatever unit the instantiating module uses   *)
(* (the code has floats in seconds); only their order and their doubling   *)
(* matter here.                                                            *)
(***************************************************************************)
EXTENDS Integers

CONSTANTS MaxAttempts,   \* NOTIFICATION_MAX_ATTEMPTS
          BaseDelay,     \* NOTIFICATION_RETRY_BASE_DELAY_SECONDS
          MaxDelay       \* NOTIFICATION_RETRY_MAX_DELAY_SECONDS

(* What RetryPolicy.__post_init__ refuses to construct is no policy.       *)
ASSUME PolicyAssumption ==
  /\ MaxAttempts \in Nat /\ MaxAttempts >= 1
  /\ BaseDelay \in Nat /\ BaseDelay > 0
  /\ MaxDelay \in Nat /\ MaxDelay >= BaseDelay

(* "No hint" is Python's None.  It is below every real hint, so that       *)
(* "a hint was given and is larger than the delay" is one comparison.      *)
NoHint == -1

(* worker._retry_after_hint: the text carries whatever integer the         *)
(* provider sent, and the pattern matches digits only, so a negative wait  *)
(* is read back as no hint at all.                                         *)
HintOf(wait) == IF wait >= 0 THEN wait ELSE NoHint

(* RetryPolicy.delay_for(attempt, retry_after).                            *)
Backoff(attempt) == BaseDelay * 2 ^ (attempt - 2)

(* Mutant: a hint, given or not, replaces the computed delay.              *)
HintInstead(d, e) == e

Longer(d, e) == IF e > d THEN e ELSE d

Capped(d) == IF d <= MaxDelay THEN d ELSE MaxDelay

DelayFor(attempt, hint) ==
  IF attempt <= 1 THEN 0 ELSE Capped(Longer(Backoff(attempt), hint))

=============================================================================
