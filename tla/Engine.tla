------------------------------- MODULE Engine -------------------------------
(***************************************************************************)
(* One logical call through the retry/failover engine                      *)
(* (transport/engine.rs, with the entry points of transport/mod.rs, the    *)
(* candidate list of transport/routing.rs and the attempt assembly of      *)
(* transport/headers.rs).  The servers, the network and the caller are the *)
(* environment: a server may answer anything or never answer, the          *)
(* transport may fail at every await, and the caller may drop the future   *)
(* at every await.                                                         *)
(*                                                                         *)
(* phase names the await the call is suspended in:                         *)
(*   idle      not polled yet                                              *)
(*   ready     top of the loop, about to assemble an attempt               *)
(*   waiting   send_raw: waiting for response headers                      *)
(*   draining  read_body of a failure response                             *)
(*   sleeping  backoff                                                     *)
(*   open      a 2xx response has been handed back, body unread            *)
(*   done      the call returned, failed or was dropped                    *)
(*                                                                         *)
(* wire is a history of what really went out and what came back.  It is    *)
(* independent of the recorder, whose account of the call is checked       *)
(* against it.                                                             *)
(***************************************************************************)
EXTENDS Recorder, FiniteSets

CONSTANTS
    Calls,          \* the calls a client may make (see CallType)
    MaxRetries,     \* Client.max_retries
    AliasCount,     \* how many alias domains the default host has
    Responses,      \* what a server may answer (see ResponseType)
    TransportFailures, \* how the transport may fail (see FailureType)
    JitterDraws     \* the values the jitter may take, cut to its ceiling

VARIABLES call, phase, attempt, index, key, response, delay, rec, sink, wire,
          result

engineVars == << call, phase, attempt, index, key, response, delay, rec, sink,
                 wire, result >>

Methods == {"GET", "HEAD", "OPTIONS", "TRACE", "POST", "PUT", "PATCH", "DELETE"}

CallType ==
    [plane : {"inference", "control"},
     base : {"default", "region", "custom"},
     regional_failover : BOOLEAN,
     method : Methods,
     key : {"none", "", "given"},
     mints : BOOLEAN,        \* does the endpoint wrapper ensure a key?
     streaming : BOOLEAN,
     telemetry : BOOLEAN,
     tracked : BOOLEAN,      \* tracked_inference_path
     deadline : BOOLEAN,     \* a timeout other than ZERO is in force
     valid_path : BOOLEAN,
     valid_headers : BOOLEAN]

HintType == [ms : Int, seconds : Int, date : Int]

ResponseType == [status : Nat, verdict : Verdicts, hint : HintType]

ErrorClasses == {"dns", "tls", "connect_refused", "connect_timeout",
                 "connect_error", "read_timeout", "protocol_error", "reset",
                 "io_error", "proxy_error", "unknown"}

(* Failures to reach a server at all: none of them can break a body.       *)
ConnectClasses == {"dns", "tls", "connect_refused", "connect_timeout",
                   "connect_error", "proxy_error"}

(* classify_transport_error: an error that timed out has one of the two    *)
(* timeout classes.                                                        *)
FailureType ==
    {f \in [class : ErrorClasses, timed_out : BOOLEAN] :
        f.timed_out => f.class \in {"connect_timeout", "read_timeout"}}

ASSUME EngineAssumption ==
    /\ Calls \subseteq CallType
    /\ MaxRetries \in Nat
    /\ AliasCount \in Nat
    /\ Responses \subseteq ResponseType
    /\ TransportFailures \subseteq FailureType
    /\ JitterDraws \subseteq Nat /\ 0 \in JitterDraws

(* AttemptFailure::Deadline and what the transport failures flatten to.    *)
Deadline == [class |-> "read_timeout", timed_out |-> TRUE]

IntoError(failure) == IF failure.timed_out THEN "timeout" ELSE "transport"

NoAnswer == [kind |-> "none", status |-> None, verdict |-> "absent",
             class |-> "none", timed_out |-> FALSE]

Answered(resp) == [NoAnswer EXCEPT !.kind = "http", !.status = resp.status,
                                   !.verdict = resp.verdict]

Failed(failure) == [NoAnswer EXCEPT !.kind = "failure",
                                    !.class = failure.class,
                                    !.timed_out = failure.timed_out]

BodyFailed(answer, failure) ==
    [answer EXCEPT !.kind = "body_failure", !.class = failure.class,
                   !.timed_out = failure.timed_out]

NoResponse == [status |-> 0, verdict |-> "absent",
               hint |-> [ms |-> None, seconds |-> None, date |-> NoDate]]

-----------------------------------------------------------------------------
IgnoresRegionalFailover(c) ==
    IF c.plane = "inference" /\ c.base = "default" THEN 1 + AliasCount ELSE 1

(* Routing: the ordered candidate list, of which only the length matters.  *)
CandidateCount(c) ==
    IF c.plane = "inference" /\ c.regional_failover /\ c.base = "default"
    THEN 1 + AliasCount
    ELSE 1

(* plane_urls: a root-relative path that joins every base, or one that     *)
(* fails the call before anything is sent.                                 *)
Routable(c) == c.valid_path

(* ensure_idempotency_key: mints only when the caller supplied none, so an *)
(* explicit empty key stays empty and suppresses the header.               *)
EnsureIdempotencyKey(c) == IF c.mints /\ c.key = "none" THEN "minted" ELSE c.key

KeyPresent(k) == k \notin {"none", ""}

RequestReplaySafe(method, k) ==
    method \in {"GET", "HEAD", "OPTIONS", "TRACE"} \/ KeyPresent(k)

RequestRecorder(c) ==
    NewRecorder(c.telemetry /\ c.plane = "inference" /\ c.tracked,
                c.method \in {"GET", "POST"},
                c.base = "custom")

-----------------------------------------------------------------------------
Init ==
    /\ call \in Calls
    /\ phase = "idle"
    /\ attempt = 0
    /\ index = 0
    /\ key = "none"
    /\ response = NoResponse
    /\ delay = 0
    /\ rec = NewRecorder(FALSE, FALSE, FALSE)
    /\ sink = << >>
    /\ wire = << >>
    /\ result = "pending"

(* The call ends here and the recorder, if any, is finished.               *)
EndWith(r, exhausted, outcome) ==
    /\ phase' = "done"
    /\ result' = outcome
    /\ rec' = Finished(r)
    /\ sink' = sink \o Reports(r, exhausted)

(* execute, up to the loop: candidates first (an unroutable path fails     *)
(* before a recorder exists), then the recorder and the cursor.            *)
Start ==
    /\ phase = "idle"
    /\ key' = EnsureIdempotencyKey(call)
    /\ \/ /\ ~ Routable(call)
          /\ phase' = "done"
          /\ result' = "config"
          /\ rec' = rec
       \/ /\ Routable(call)
          /\ phase' = "ready"
          /\ rec' = RequestRecorder(call)
          /\ UNCHANGED result
    /\ UNCHANGED << call, attempt, index, response, delay, sink, wire >>

StopsIgnoringReplay(d) == attempt >= MaxRetries \/ ~ d.retry

(* The loop's terminal check, the move and the backoff, in the code's      *)
(* order, for the recorder r and the disposition d of this attempt.        *)
Stops(d) ==
    \/ attempt >= MaxRetries
    \/ ~ d.retry
    \/ ~ RequestReplaySafe(call.method, key)

CanAdvance == index + 1 < CandidateCount(call)

Backoff(d) ==
    \E jitter \in JitterDraws \cap (0 .. BackoffCeiling(attempt)) :
        delay' = RetryDelay(attempt, d.retry_after, jitter)

Conclude(r, d) ==
    \/ /\ Stops(d)
       /\ EndWith(r, attempt > 0 /\ d.retry, d.error)
       /\ UNCHANGED << index, delay >>
    \/ /\ ~ Stops(d)
       /\ LET moves == d.failover /\ CanAdvance
          IN  /\ index' = IF moves THEN index + 1 ELSE index
              /\ rec' = IF moves THEN OnMoved(r) ELSE r
       /\ Backoff(d)
       /\ phase' = "sleeping"
       /\ UNCHANGED << sink, result >>

(* request_headers: the merged headers parse, or the call fails.           *)
Assembles(c) == c.valid_headers

WireKey == IF KeyPresent(key) THEN key ELSE "none"

(* begin_attempt and the assembly half of send_once.  Headers that do not  *)
(* parse fail the call as a configuration error with no attempt recorded.  *)
(* builder.build() is left out: it is given a parsed URL, parsed headers   *)
(* and a JSON value, and has nothing left that it could refuse.            *)
BeginSend ==
    /\ phase = "ready"
    /\ LET r == BeginAttempt(rec, index)
       IN  \/ /\ ~ Assembles(call)
              /\ Conclude(r, FromTransport("config"))
              /\ UNCHANGED wire
           \/ /\ Assembles(call)
              /\ rec' = r
              /\ wire' = Append(wire, [host |-> index, key |-> WireKey,
                                       header |-> HeaderValue(r),
                                       answer |-> NoAnswer])
              /\ phase' = "waiting"
              /\ UNCHANGED << index, delay, sink, result >>
    /\ UNCHANGED << call, attempt, key, response >>

Note(answer) == wire' = [wire EXCEPT ![Len(wire)].answer = answer]

(* Response headers arrive.  A 2xx goes back to the entry point undrained; *)
(* anything else is recorded at header receipt and then drained.           *)
ReceiveHeaders ==
    /\ phase = "waiting"
    /\ \E resp \in Responses :
          /\ rec' = OnResponse(rec, resp)
          /\ Note(Answered(resp))
          /\ \/ /\ resp.status \in 200 .. 299
                /\ phase' = "open"
                /\ UNCHANGED response
             \/ /\ resp.status \notin 200 .. 299
                /\ phase' = "draining"
                /\ response' = resp
    /\ UNCHANGED << call, attempt, index, key, delay, sink, result >>

SendFails(failure) ==
    /\ phase = "waiting"
    /\ Note(Failed(failure))
    /\ Conclude(OnTransportError(rec, failure, FALSE, FALSE),
                FromTransport(IntoError(failure)))
    /\ UNCHANGED << call, attempt, key, response >>

(* The failure body was read: on_response_body_complete only adds the      *)
(* error source and the elapsed time.                                      *)
DrainCompletes ==
    /\ phase = "draining"
    /\ Conclude(rec, FromHttp(response))
    /\ UNCHANGED << call, attempt, key, response, wire >>

(* The failure body broke or stalled: a retryable status keeps its         *)
(* disposition, any other surfaces the read failure at once.               *)
DrainFails(failure) ==
    /\ phase = "draining"
    /\ Note(BodyFailed(Last(wire).answer, failure))
    /\ LET r == OnTransportError(rec, failure, TRUE, FALSE)
           d == FromHttp(response)
       IN  \/ /\ d.retry
              /\ Conclude(r, d)
           \/ /\ ~ d.retry
              /\ EndWith(r, FALSE, IntoError(failure))
              /\ UNCHANGED << index, delay >>
    /\ UNCHANGED << call, attempt, key, response >>

Wake ==
    /\ phase = "sleeping"
    /\ attempt' = attempt + 1
    /\ phase' = "ready"
    /\ UNCHANGED << call, index, key, response, delay, rec, sink, wire, result >>

(* request_bytes: the success body is drained under the same deadline and  *)
(* a failure here is never retried.                                        *)
Buffered == phase = "open" /\ ~ call.streaming

BodyCompletes ==
    /\ Buffered
    /\ EndWith(rec, FALSE, "ok")
    /\ UNCHANGED << call, attempt, index, key, response, delay, wire >>

BodyFails(failure) ==
    /\ Buffered
    /\ Note(BodyFailed(Last(wire).answer, failure))
    /\ EndWith(OnTransportError(rec, failure, TRUE, FALSE), FALSE,
               IntoError(failure))
    /\ UNCHANGED << call, attempt, index, key, response, delay >>

DeadlineOnHeadersOnly == call.deadline /\ SendFails(Deadline)

(* The SDK's own deadline, whichever await it bounds.  A timeout of ZERO   *)
(* disables it.                                                            *)
DeadlineElapses ==
    /\ call.deadline
    /\ SendFails(Deadline) \/ DrainFails(Deadline) \/ BodyFails(Deadline)

TransportBreaks ==
    \E failure \in TransportFailures :
        \/ SendFails(failure)
        \/ /\ failure.class \notin ConnectClasses
           /\ DrainFails(failure) \/ BodyFails(failure)

(* The caller drops the future at an await: RequestRecorder's Drop records *)
(* the attempt in flight as aborted.                                       *)
Suspended == phase \in {"waiting", "draining", "sleeping"} \/ Buffered

CallerDrops ==
    /\ Suspended
    /\ EndWith(Dropped(rec), FALSE, "dropped")
    /\ UNCHANGED << call, attempt, index, key, response, delay, wire >>

Local == Start \/ BeginSend \/ Wake

Environment == ReceiveHeaders \/ DrainCompletes \/ BodyCompletes
               \/ TransportBreaks \/ CallerDrops

EngineNext == Local \/ DeadlineElapses \/ Environment

(* A streaming call leaves the engine with its response open.              *)
HandedOver == phase = "open" /\ call.streaming

Terminated == (phase = "done" \/ HandedOver) /\ UNCHANGED engineVars

Next == EngineNext \/ Terminated

(* Only the SDK's own steps and timers are fair: no server has to answer.  *)
Fairness == WF_engineVars(Local) /\ WF_engineVars(DeadlineElapses)

Spec == Init /\ [][Next]_engineVars /\ Fairness

-----------------------------------------------------------------------------
AttemptType ==
    [host : Nat, outcome : Outcomes, http_status : Nat \cup {None},
     error_class : ErrorClasses \cup {"none", "stream_stalled"},
     should_retry : Verdicts, moved : BOOLEAN, phase : Phases]

Results == {"pending", "ok", "api", "timeout", "transport", "config", "dropped"}

(* Every variable stays in its type, the cursor stays on the candidate     *)
(* list (the indexing of candidates in execute cannot panic) and the       *)
(* attempt counter under the ceiling.                                      *)
TypeOK ==
    /\ call \in Calls
    /\ phase \in {"idle", "ready", "waiting", "draining", "sleeping", "open",
                  "done"}
    /\ attempt \in 0 .. MaxRetries
    /\ index \in 0 .. CandidateCount(call) - 1
    /\ key \in {"none", "", "given", "minted"}
    /\ response \in Responses \cup {NoResponse}
    /\ delay \in Nat
    /\ rec.attempts \in Seq(AttemptType)
    /\ rec.failover_used \in BOOLEAN /\ rec.finished \in BOOLEAN
    /\ rec.current_index \in Nat \cup {None}
    /\ result \in Results

Sends == 1 .. Len(wire)
Resent == {i \in Sends : i < Len(wire)}

(* A request goes out again only if replaying it is safe (the method or a  *)
(* non-empty idempotency key, the same key each time), never after the     *)
(* gateway said x-should-retry: false, after an unlabelled response only   *)
(* for 429 and 5xx, and at most MaxRetries times (transport invariants 1,  *)
(* 4, 5 and 8).                                                            *)
ResendsAreSafe ==
    /\ Len(wire) <= MaxRetries + 1
    /\ \A i \in Resent :
          /\ call.method \in {"GET", "HEAD", "OPTIONS", "TRACE"}
             \/ wire[i].key \in {"given", "minted"}
          /\ wire[i + 1].key = wire[i].key
          /\ LET a == wire[i].answer
             IN  /\ a.kind # "none"
                 /\ a.verdict # "false"
                 /\ a.kind # "failure" /\ a.verdict = "absent"
                       => a.status = 429 \/ a.status >= 500

GatewayFailure(a) ==
    a.kind = "failure" \/ (a.status \in {502, 503, 504} /\ a.verdict # "false")

(* The walk over the domains: an attempt stays on its host or takes the    *)
(* next candidate, and it moves exactly when the previous attempt failed   *)
(* at the gateway level and a candidate is left.  A 500 or a 429 is        *)
(* retried in place, even when its body broke (invariants 1, 2 and 4).     *)
MovesOnlyOnGatewayFailure ==
    \A i \in Resent :
        wire[i + 1].host =
            IF GatewayFailure(wire[i].answer)
               /\ wire[i].host + 1 < CandidateCount(call)
            THEN wire[i].host + 1 ELSE wire[i].host

(* Only a default-host inference client that did not opt out ever leaves   *)
(* its first host: a custom base, a regional pin, the control plane and a  *)
(* pinned client stay where they are (invariants 3 and 7).                 *)
PinnedCallsNeverMove ==
    call.plane = "control" \/ call.base # "default" \/ ~ call.regional_failover
        => \A i \in Sends : wire[i].host = 0

(* What an attempt's answer is called in the next attempt's header.        *)
NameOf(a) ==
    CASE a.kind \in {"failure", "body_failure"} ->
            IF a.timed_out THEN "timeout" ELSE "transport_error"
      [] a.kind = "http" /\ a.status >= 400 -> "http_error"
      [] OTHER -> "none"

MovedBefore(i) == \E j \in 1 .. i - 1 : wire[j].host # wire[j + 1].host

(* Every x-tr-client header that goes out describes what the engine really *)
(* did: the number of attempts before it, how the previous one ended and   *)
(* on which host, and whether the call has changed domains (engine.rs: the *)
(* header cannot disagree with what the engine actually did).              *)
HeaderIsTruthful ==
    \A i \in Sends :
        LET h == wire[i].header
        IN  h # NoHeader =>
              /\ h.a = i - 1
              /\ i > 1 => /\ h.po = NameOf(wire[i - 1].answer)
                          /\ h.ph = wire[i - 1].host
                          /\ h.fo = MovedBefore(i)
                          /\ h.pc = wire[i - 1].answer.class

InScope == call.telemetry /\ call.plane = "inference" /\ call.tracked
           /\ call.method \in {"GET", "POST"}

(* A finished call in telemetry's scope that sent anything has been        *)
(* reported exactly once, however it ended, and no other call ever is.     *)
(* The report's account of the walk is the wire's: one attempt per send,   *)
(* on the host it went to, with the status that came back, marked moved    *)
(* exactly when the cursor moved on after it, and the counter rows of the  *)
(* request level agree with the sum of the rows of the attempt level       *)
(* (finish, store_attempt, on_moved).                                      *)
ReportMatchesWire ==
    /\ Len(sink) <= 1
    /\ phase = "done" => (Len(sink) = 1 <=> InScope /\ wire # << >>)
    /\ \A k \in DOMAIN sink :
        LET e == sink[k]
            n == Len(wire)
        IN  /\ Len(e.attempts) = n /\ Len(e.rows) = n + 1
            /\ \A i \in 1 .. n :
                  /\ e.attempts[i].host = wire[i].host
                  /\ e.attempts[i].http_status = wire[i].answer.status
            /\ \A i \in 1 .. n :
                  e.attempts[i].moved <=>
                    (IF i < n THEN wire[i + 1].host ELSE index) # wire[i].host
            /\ e.rows[1].attempts = n
            /\ e.rows[1].failover_used = 1
                 <=> \E i \in 2 .. n + 1 : e.rows[i].failover_used = 1

(* The reported outcome is what happened to the caller: ok if they got     *)
(* their body, aborted if they dropped the call, exhausted only when the   *)
(* retry ceiling stopped a retryable failure, and otherwise a failure,     *)
(* except that a 1xx or a 3xx counts as ok although the caller gets an     *)
(* error (AttemptOutcome::Ok is a response under 400).                     *)
OutcomeMatchesResult ==
    \A k \in DOMAIN sink : result # "pending" =>
        LET o == sink[k].final_outcome
        IN  /\ result = "ok" <=>
                 o = "ok" /\ sink[k].final_http_status \in 200 .. 299
            /\ result = "dropped" <=> o = "aborted"
            /\ o = "exhausted" => attempt = MaxRetries /\ attempt > 0
            /\ o = "timeout" =>
                 result = "timeout" \/ sink[k].final_http_status # None

(* The engine never sleeps longer than a minute and never less than the    *)
(* server asked for, up to that minute, in whichever of the three forms it *)
(* asked: milliseconds first, then seconds, then a date that is not yet    *)
(* past (retry_delay, parse_retry_after).                                  *)
BackoffHonoursServer ==
    phase = "sleeping" =>
        /\ delay <= 60000
        /\ Last(wire).answer.kind # "failure" =>
             LET h == response.hint
             IN  /\ h.ms # None => delay >= AtMost(h.ms, 60000)
                 /\ h.ms = None /\ h.seconds # None
                       => delay >= AtMost(h.seconds * 1000, 60000)
                 /\ h.ms = None /\ h.seconds = None /\ h.date >= 0
                       => delay >= AtMost(h.date, 60000)

(* With a deadline in force every call ends or hands its stream over, even *)
(* if no server ever answers: the timers alone drive it to the end.        *)
DeadlineBoundsTheCall ==
    call.deadline ~> (phase = "done" \/ HandedOver)
=============================================================================
