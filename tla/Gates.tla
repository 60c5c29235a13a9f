------------------------------- MODULE Gates --------------------------------
(***************************************************************************)
(* What holds the beacon back (telemetry/reporter.rs): the backoff after a *)
(* failed POST, the pause and the slower pace a policy may impose.  The    *)
(* operators act on a reporter state s, of which they use the fields       *)
(* backoff, backoff_until, paused_until, rate and interval; t is the time  *)
(* on whatever scale s keeps its times.                                    *)
(***************************************************************************)
EXTENDS Integers

CONSTANTS
    BackoffMin,         \* TELEMETRY_BACKOFF_MIN_SECONDS
    BackoffMax,         \* TELEMETRY_BACKOFF_MAX_SECONDS
    MaxPause            \* MAX_PAUSE_SECONDS

ASSUME GatesAssumption ==
    /\ BackoffMin \in Nat \ {0} /\ BackoffMax \in Nat /\ BackoffMin <= BackoffMax
    /\ MaxPause \in Nat

None == -1

Larger(a, b) == IF a >= b THEN a ELSE b
Smaller(a, b) == IF a <= b THEN a ELSE b
Minus(a, b) == Larger(a - b, 0)     \* saturating_sub

Gate(s) == Larger(s.paused_until, s.backoff_until)

SetBackoff(s, t, retry_after) ==
    [s EXCEPT !.backoff_until =
                  t + Smaller(Larger(s.backoff, retry_after), BackoffMax),
              !.backoff = Smaller(Larger(2 * @, BackoffMin), BackoffMax)]

ResetBackoff(s) == [s EXCEPT !.backoff = BackoffMin, !.backoff_until = 0]

(* A 202's policy is applied only where it reduces volume.                 *)
ApplyPolicy(s, policy, t) ==
    [s EXCEPT !.rate = IF policy.rate \in 0 .. @ - 1 THEN policy.rate ELSE @,
              !.interval = IF policy.interval > @
                           THEN Smaller(policy.interval, BackoffMax) ELSE @,
              !.paused_until = IF policy.pause \in 0 .. MaxPause
                               THEN Larger(@, t + policy.pause) ELSE @]
=============================================================================
