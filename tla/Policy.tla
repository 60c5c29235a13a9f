------------------------------- MODULE Policy -------------------------------
(***************************************************************************)
(* The decision kernel of the transport (transport/policy.rs, layer L1):   *)
(* what a failed attempt permits the engine to do next, and how long the   *)
(* engine sleeps first.  Everything here is a pure operator.  Times are    *)
(* milliseconds; None stands for an absent optional number.                *)
(***************************************************************************)
EXTENDS Integers

None == -1

(* The x-should-retry header: spoken in either direction, or not at all    *)
(* (absent and unparseable are the same to should_retry_verdict).          *)
Verdicts == {"true", "false", "absent"}

MaxRetryAfter == 60000
JitterBase == 500
JitterCap == 30000

AtMost(a, b) == IF a <= b THEN a ELSE b
AtLeast(a, b) == IF a >= b THEN a ELSE b

(* A response as the policy sees it: status, verdict and the two retry     *)
(* headers.  Each header is None when absent or unparseable; a Retry-After *)
(* is in seconds or an HTTP date, given as its distance from now.          *)
NoDate == -100000000

RetryAfterWithoutDates(h) ==
    IF h.ms # None
    THEN AtMost(h.ms, MaxRetryAfter)
    ELSE IF h.seconds # None THEN AtMost(h.seconds * 1000, MaxRetryAfter) ELSE None

ParseRetryAfter(h) ==
    IF h.ms # None
    THEN AtMost(h.ms, MaxRetryAfter)
    ELSE IF h.seconds # None
    THEN AtMost(h.seconds * 1000, MaxRetryAfter)
    ELSE IF h.date >= 0 THEN AtMost(h.date, MaxRetryAfter) ELSE None

RetryableStatus(status, verdict) ==
    \/ verdict = "true"
    \/ verdict = "absent" /\ (status = 429 \/ status >= 500)

AnyServerErrorMoves(status, verdict) == verdict # "false" /\ status >= 500

FailoverableStatus(status, verdict) ==
    verdict # "false" /\ status \in 502 .. 504

RetryableTransport(error) == error \in {"transport", "timeout"}

(* FailureDisposition: what one failed attempt allows.  The error is what  *)
(* the caller gets if the engine stops here.                               *)
FromHttp(response) ==
    [retry |-> RetryableStatus(response.status, response.verdict),
     failover |-> FailoverableStatus(response.status, response.verdict),
     retry_after |-> ParseRetryAfter(response.hint),
     error |-> "api"]

FromTransport(error) ==
    [retry |-> RetryableTransport(error),
     failover |-> TRUE,
     retry_after |-> None,
     error |-> error]

BackoffCeiling(attempt) == AtMost(JitterBase * 2 ^ AtMost(attempt, 6), JitterCap)

RetryDelay(attempt, retry_after, jitter) ==
    AtLeast(AtMost(AtLeast(retry_after, 0), MaxRetryAfter), jitter)
=============================================================================
