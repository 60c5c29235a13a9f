------------------------------ MODULE Recorder ------------------------------
(***************************************************************************)
(* RequestRecorder (telemetry.rs): the per-call flight recorder.  A        *)
(* recorder is a record and every hook an operator from a recorder to a    *)
(* recorder.  Measured durations, request ids, models and error sources    *)
(* are left out; a host is its position in the candidate list.             *)
(*                                                                         *)
(* A call out of telemetry's scope has no recorder in the code.  Here it   *)
(* has one with on = FALSE: begin_attempt does nothing, so no attempt is   *)
(* ever in flight, so no other hook does anything either.                  *)
(***************************************************************************)
EXTENDS Policy, Sequences

NoHeader == [a |-> None, po |-> "", pc |-> "", ph |-> None, fo |-> FALSE]

MaxHeaderIndex == 99

Outcomes == {"ok", "http_error", "transport_error", "timeout",
             "stream_broken", "aborted"}

Phases == {"none", "connect", "first_byte", "idle"}

NewRecorder(on, recordable, custom) ==
    [on |-> on, recordable |-> recordable, custom |-> custom,
     attempts |-> << >>, failover_used |-> FALSE, ttft |-> FALSE,
     current_index |-> None, current_host |-> None, finished |-> FALSE]

BeginAttempt(r, host) ==
    IF r.on
    THEN [r EXCEPT !.current_index = Len(r.attempts), !.current_host = host]
    ELSE r

InFlight(r) == r.current_index # None

(* Does the attempt in flight already have a record?                       *)
Opened(r) == InFlight(r) /\ r.current_index < Len(r.attempts)

Last(s) == s[Len(s)]

(* po and pc: there is no "ok" or "aborted" in the header's vocabulary, so *)
(* a forced retry after a sub-400 response degrades to none.               *)
PreviousOutcome(p) == IF p.outcome \in {"ok", "aborted"} THEN "none" ELSE p.outcome

PreviousClass(p) == IF p.outcome \in {"ok", "aborted"} THEN "none" ELSE p.error_class

HeaderValue(r) ==
    IF ~ InFlight(r) \/ r.current_index > MaxHeaderIndex \/ r.custom
    THEN NoHeader
    ELSE IF r.current_index = 0
    THEN [NoHeader EXCEPT !.a = 0]
    ELSE LET previous == Last(r.attempts)
         IN  [a |-> r.current_index,
              po |-> PreviousOutcome(previous),
              pc |-> PreviousClass(previous),
              ph |-> previous.host,
              fo |-> r.failover_used]

StoreAttempt(r, record) ==
    [r EXCEPT !.attempts =
        IF Opened(r) THEN [@ EXCEPT ![r.current_index + 1] = record]
                     ELSE Append(@, record)]

OnResponse(r, response) ==
    IF ~ InFlight(r) THEN r
    ELSE StoreAttempt(r,
            [host |-> r.current_host,
             outcome |-> IF response.status < 400 THEN "ok" ELSE "http_error",
             http_status |-> response.status,
             error_class |-> "none",
             should_retry |-> response.verdict,
             moved |-> FALSE,
             phase |-> "none"])

PhaseForClass(class) ==
    CASE class = "connect_timeout" -> "connect"
      [] class = "read_timeout" -> "first_byte"
      [] OTHER -> "none"

FailureOutcome(timed_out, body_started) ==
    IF timed_out THEN "timeout"
    ELSE IF body_started THEN "stream_broken" ELSE "transport_error"

OnTransportError(r, failure, response_opened, body_started) ==
    IF ~ InFlight(r) THEN r
    ELSE LET class == failure.class
             idle == failure.timed_out /\ body_started
             previous == Opened(r)
             record == r.attempts[r.current_index + 1]
         IN  StoreAttempt(r,
               [host |-> r.current_host,
                outcome |-> FailureOutcome(failure.timed_out, body_started),
                http_status |-> IF previous /\ response_opened
                                THEN record.http_status ELSE None,
                error_class |-> IF idle /\ class = "read_timeout"
                                THEN "stream_stalled" ELSE class,
                should_retry |-> IF previous THEN record.should_retry ELSE "absent",
                moved |-> FALSE,
                phase |-> IF idle THEN "idle" ELSE PhaseForClass(class)])

MovedWithoutFlag(r) ==
    IF r.attempts = << >> THEN r
    ELSE [r EXCEPT !.attempts[Len(r.attempts)].moved = TRUE]

OnMoved(r) ==
    IF r.attempts = << >> THEN r
    ELSE [r EXCEPT !.attempts = [@ EXCEPT ![Len(r.attempts)].moved = TRUE],
                   !.failover_used = TRUE]

OnFirstEvent(r) == IF InFlight(r) THEN [r EXCEPT !.ttft = TRUE] ELSE r

AbortOnlyOpened(r) ==
    IF Opened(r) THEN [r EXCEPT !.attempts[r.current_index + 1].outcome = "aborted"]
    ELSE r

OnAborted(r) ==
    IF ~ InFlight(r) THEN r
    ELSE IF Opened(r)
    THEN [r EXCEPT !.attempts =
             [@ EXCEPT ![r.current_index + 1].outcome = "aborted"]]
    ELSE StoreAttempt(r, [host |-> r.current_host, outcome |-> "aborted",
                          http_status |-> None, error_class |-> "none",
                          should_retry |-> "absent", moved |-> FALSE,
                          phase |-> "none"])

(* The first attempt that failed with a class names the call's class.      *)
FirstClass(attempts) ==
    LET failed == {i \in DOMAIN attempts : attempts[i].error_class # "none"}
    IN  IF failed = {} THEN "none"
        ELSE attempts[CHOOSE i \in failed : \A j \in failed : i <= j].error_class

StatusClass(status) ==
    CASE status \in 200 .. 299 -> "2xx"
      [] status = 429 -> "429"
      [] status \in 400 .. 499 /\ status # 429 -> "4xx"
      [] status \in 500 .. 599 -> "5xx"
      [] OTHER -> "none"

RequestRow(r) ==
    LET last == Last(r.attempts)
    IN  [level |-> "request", host |-> last.host, outcome |-> last.outcome,
         error_class |-> FirstClass(r.attempts),
         status_class |-> StatusClass(last.http_status),
         phase |-> last.phase,
         attempts |-> Len(r.attempts),
         failover_used |-> IF r.failover_used THEN 1 ELSE 0,
         first_attempt_success |-> IF r.attempts[1].outcome = "ok" THEN 1 ELSE 0]

AttemptRow(a) ==
    [level |-> "attempt", host |-> a.host, outcome |-> a.outcome,
     error_class |-> a.error_class,
     status_class |-> StatusClass(a.http_status),
     phase |-> a.phase,
     attempts |-> 1,
     failover_used |-> IF a.moved THEN 1 ELSE 0,
     first_attempt_success |-> 0]

ExhaustedHoweverItEnded(r, exhausted) ==
    IF Len(r.attempts) > 1 /\ Last(r.attempts).outcome # "ok"
    THEN "exhausted" ELSE Last(r.attempts).outcome

FinalOutcome(r, exhausted) ==
    IF exhausted /\ Len(r.attempts) > 1 /\ Last(r.attempts).outcome # "ok"
    THEN "exhausted" ELSE Last(r.attempts).outcome

RequestEvent(r, exhausted) ==
    [attempts |-> r.attempts,
     final_outcome |-> FinalOutcome(r, exhausted),
     final_http_status |-> Last(r.attempts).http_status,
     ttft |-> r.ttft,
     failover_used |-> r.failover_used,
     rows |-> << RequestRow(r) >> \o
              [i \in 1 .. Len(r.attempts) |-> AttemptRow(r.attempts[i])]]

ReportsAgain(r, exhausted) ==
    IF r.attempts = << >> \/ ~ r.recordable THEN << >>
    ELSE << RequestEvent(r, exhausted) >>

(* finish: what the sink receives, then the recorder it leaves behind.     *)
Reports(r, exhausted) ==
    IF r.finished \/ r.attempts = << >> \/ ~ r.recordable THEN << >>
    ELSE << RequestEvent(r, exhausted) >>

Finished(r) == [r EXCEPT !.finished = TRUE]

(* Drop for RequestRecorder: an unfinished recorder aborts the attempt in  *)
(* flight and finishes; a finished one does nothing.                       *)
Dropped(r) == IF r.finished THEN r ELSE OnAborted(r)
=============================================================================
