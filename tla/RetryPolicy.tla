---------------------------- MODULE RetryPolicy ----------------------------
(***************************************************************************)
(* core/retry_policy.py: what a failed attempt becomes.  An exception is     *)
(* abstracted to the class classify_failure puts it in:                      *)
(*   rateLimit     status 429 or a rate-limit name or message                *)
(*   unavailable   502, 503, 504, connection and timeout names               *)
(*   server        another 5xx, OSError, and everything unclassified         *)
(*                 (RuntimeError, NameError, ...)                            *)
(*   badInput      ValueError, TypeError, KeyError                           *)
(*   client        another 4xx, among them every refused DynamoDB condition  *)
(***************************************************************************)
EXTENDS Naturals

Errors == {"rateLimit", "unavailable", "server", "badInput", "client"}

classify_failure(error) ==
    CASE error = "rateLimit" -> "RATE_LIMITED"
      [] error = "unavailable" -> "PROVIDER_UNAVAILABLE"
      [] error = "server" -> "TRANSIENT_INFRASTRUCTURE"
      [] error \in {"badInput", "client"} -> "PERMANENT"

retryable(error) == classify_failure(error) # "PERMANENT"

\* attempt is ApproximateReceiveCount, at least 1.
exhausted(error, attempt, maxAttempts) ==
    retryable(error) /\ attempt >= maxAttempts

terminal(error, attempt, maxAttempts) ==
    ~retryable(error) \/ exhausted(error, attempt, maxAttempts)

\* The status mark_claim_failed writes for the decision.
FailureStatus(error, attempt, maxAttempts) ==
    IF exhausted(error, attempt, maxAttempts) THEN "FAILED_RETRY_EXHAUSTED"
    ELSE IF retryable(error) THEN "FAILED_RETRYABLE"
    ELSE "FAILED_PERMANENT"

=============================================================================
