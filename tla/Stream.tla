------------------------------- MODULE Stream -------------------------------
(***************************************************************************)
(* A streaming call from its first attempt to the release of its stream:   *)
(* the engine, then the SSE wire layer and the protocol validators of      *)
(* sse.rs, sharing one StreamRecorder (telemetry.rs).  The consumer polls  *)
(* the stream or drops it whenever it likes; the server may send any frame *)
(* at any time, break the connection, fall silent, or end the body.        *)
(*                                                                         *)
(* stage is where the consumer's stream stands:                            *)
(*   closed    the engine still owns the call                              *)
(*   reading   polling the body                                            *)
(*   terminal  a Responses terminal event was surfaced, the generator has  *)
(*             not been polled past it                                     *)
(*   ended     the generator has nothing more to do                        *)
(*   released  every handle is gone                                        *)
(***************************************************************************)
EXTENDS Engine

CONSTANTS
    MaxFrames       \* bound: decoded events per stream

VARIABLES kind, stage, frames, body_started, seen

streamVars == << kind, stage, frames, body_started, seen >>
vars == << engineVars, streamVars >>

(* Which validator sits on the wire layer: none for raw_sse and for        *)
(* unknown routes; the raw and the typed validator of a protocol treat the *)
(* recorder alike.                                                         *)
Kinds == {"raw", "chat", "responses"}

(* A decoded event: a well-formed payload, one that parse_json_event       *)
(* rejects (malformed, or an API error object), the [DONE] sentinel, or a  *)
(* Responses lifecycle event that ends the stream.                         *)
FrameKinds == {"data", "rejected", "done", "terminal"}

StreamInit ==
    /\ Init
    /\ kind \in IF call.streaming THEN Kinds ELSE {"raw"}
    /\ stage = "closed"
    /\ frames = 0
    /\ body_started = FALSE
    /\ seen = "nothing"

(* open_stream wraps the recorder, parse_sse and the validator wrap the    *)
(* body.                                                                   *)
Open ==
    /\ HandedOver /\ stage = "closed"
    /\ stage' = "reading"
    /\ UNCHANGED << engineVars, kind, frames, body_started, seen >>

(* on_event: only the first decoded event stamps the time to first token.  *)
AfterEvent == IF body_started THEN rec ELSE OnFirstEvent(rec)

(* on_complete, and the wire failure that finishes the record itself.      *)
OnComplete(r) ==
    /\ rec' = Finished(r)
    /\ sink' = sink \o Reports(r, FALSE)

WireFailureAlwaysBroken(failure) ==
    OnComplete(OnTransportError(rec, failure, TRUE, TRUE))

OnWireFailure(failure) ==
    OnComplete(OnTransportError(rec, failure, TRUE, body_started))

Validated == kind # "raw"

EndsStream(frame) ==
    \/ Validated /\ frame = "done"
    \/ kind = "responses" /\ frame = "terminal"

(* One decoded event passes the wire layer and the validator.  Chat and    *)
(* [DONE] complete before anything else is surfaced; a Responses terminal  *)
(* event is surfaced first and completed on the next poll.  A rejected     *)
(* event surfaces its error and returns.                                   *)
ReceiveFrame(frame) ==
    /\ stage = "reading"
    /\ frames < MaxFrames
    /\ frames' = frames + 1
    /\ body_started' = TRUE
    /\ \/ /\ Validated /\ frame = "done"
          /\ OnComplete(AfterEvent)
          /\ stage' = "ended"
          /\ seen' = "done"
       \/ /\ kind = "responses" /\ frame = "terminal"
          /\ rec' = AfterEvent
          /\ UNCHANGED sink
          /\ stage' = "terminal"
          /\ seen' = "terminal"
       \/ /\ Validated /\ frame = "rejected"
          /\ rec' = AfterEvent
          /\ UNCHANGED sink
          /\ stage' = "ended"
          /\ seen' = "protocol_error"
       \/ /\ ~ EndsStream(frame) /\ (frame = "rejected" => ~ Validated)
          /\ rec' = AfterEvent
          /\ UNCHANGED << sink, stage, seen >>
    /\ UNCHANGED << call, phase, attempt, index, key, response, delay, wire,
                    result, kind >>

(* The poll after a Responses terminal event: the generator completes the  *)
(* record and ends.                                                        *)
PollPastTerminal ==
    /\ stage = "terminal"
    /\ OnComplete(rec)
    /\ stage' = "ended"
    /\ seen' = "end"
    /\ UNCHANGED << call, phase, attempt, index, key, response, delay, wire,
                    result, kind, frames, body_started >>

(* End of body, or bytes that are not SSE: both complete the record with   *)
(* the outcome of the response that opened the stream.  A validator then   *)
(* reports the missing terminal frame.                                     *)
EndOfBody ==
    /\ stage = "reading"
    /\ OnComplete(rec)
    /\ stage' = "ended"
    /\ seen' = IF Validated THEN "truncated" ELSE "end"
    /\ UNCHANGED << call, phase, attempt, index, key, response, delay, wire,
                    result, kind, frames, body_started >>

FramingError ==
    /\ stage = "reading"
    /\ OnComplete(rec)
    /\ stage' = "ended"
    /\ seen' = "protocol_error"
    /\ UNCHANGED << call, phase, attempt, index, key, response, delay, wire,
                    result, kind, frames, body_started >>

WireFails(failure) ==
    /\ stage = "reading"
    /\ OnWireFailure(failure)
    /\ stage' = "ended"
    /\ seen' = "wire_error"
    /\ UNCHANGED << call, phase, attempt, index, key, response, delay, wire,
                    result, kind, frames, body_started >>

IdleOnlyBeforeFirstEvent ==
    call.deadline /\ ~ body_started /\ WireFails(Deadline)

(* The idle deadline on raw body activity; the same timeout, the same      *)
(* ZERO that disables it.                                                  *)
IdleTimeout == call.deadline /\ WireFails(Deadline)

WireBreaks ==
    \E failure \in TransportFailures :
        failure.class \notin ConnectClasses /\ WireFails(failure)

(* The consumer drops the stream, or polls past its end: the last handle   *)
(* goes and RequestRecorder's Drop runs.                                   *)
Release ==
    /\ stage \in {"reading", "terminal", "ended"}
    /\ LET r == Dropped(rec)
       IN  rec' = Finished(r) /\ sink' = sink \o Reports(r, FALSE)
    /\ stage' = "released"
    /\ phase' = "done"
    /\ UNCHANGED << call, attempt, index, key, response, delay, wire, result,
                    kind, frames, body_started, seen >>

StreamSteps ==
    \/ Open
    \/ \E frame \in FrameKinds : ReceiveFrame(frame)
    \/ PollPastTerminal
    \/ EndOfBody
    \/ FramingError
    \/ IdleTimeout
    \/ WireBreaks
    \/ Release

StreamTerminated == phase = "done" /\ UNCHANGED vars

StreamNext ==
    \/ EngineNext /\ UNCHANGED streamVars
    \/ StreamSteps
    \/ StreamTerminated

(* The consumer keeps polling: the SDK's timers fire and its generators    *)
(* run to their end.  The server owes nothing.                             *)
StreamFairness ==
    /\ WF_vars(Local /\ UNCHANGED streamVars)
    /\ WF_vars(DeadlineElapses /\ UNCHANGED streamVars)
    /\ WF_vars(Open)
    /\ WF_vars(IdleTimeout)
    /\ WF_vars(PollPastTerminal)
    /\ WF_vars(stage = "ended" /\ Release)

StreamSpec == StreamInit /\ [][StreamNext]_vars /\ StreamFairness

-----------------------------------------------------------------------------
(* The report of a stream names the moment it ended.  A body that fails    *)
(* before its first event is a plain failure of the attempt that opened    *)
(* it, one that fails later is stream_broken or a stalled idle timeout,    *)
(* and both keep the 2xx status of the response.  A stream whose body      *)
(* ended, or whose [DONE] arrived, or that was polled past its terminal    *)
(* event, is ok even if its consumer then drops it; one that its consumer  *)
(* dropped before that is aborted, and so is a Responses stream left at    *)
(* its terminal event.  And there is a time to first token exactly when an *)
(* event was decoded (on_wire_failure, on_transport_error, on_complete,    *)
(* Drop for RequestRecorder).                                              *)
OutcomeNamesItsMoment ==
    \A k \in DOMAIN sink :
        LET e == sink[k]
            last == e.attempts[Len(wire)]
        IN  /\ seen = "wire_error" =>
                 /\ last.http_status \in 200 .. 299
                 /\ frames = 0 => e.final_outcome \in {"transport_error", "timeout"}
                 /\ frames > 0 => \/ e.final_outcome = "stream_broken"
                                  \/ /\ e.final_outcome = "timeout"
                                     /\ last.phase = "idle"
                                     /\ last.error_class = "stream_stalled"
            /\ seen \in {"end", "truncated", "done"} => e.final_outcome = "ok"
            /\ stage = "released" /\ seen \in {"nothing", "terminal"}
                 => e.final_outcome = "aborted"
            /\ stage # "closed" => (e.ttft <=> frames > 0)

(* While its consumer keeps polling and an idle deadline is in force, an   *)
(* open stream ends and is released, even if the server falls silent.      *)
SilentStreamEnds == stage = "reading" /\ call.deadline ~> stage = "released"

StreamAbstract ==
    INSTANCE LogicalCall WITH
        MaxSends <- MaxRetries + 1,
        replayable <- RequestReplaySafe(call.method, EnsureIdempotencyKey(call)),
        hosts <- CandidateCount(call),
        sends <- Len(wire),
        host <- index,
        ended <- phase = "done" \/ rec.finished,
        reports <- Len(sink)

(* A streaming call is one logical call too: opening, reading, breaking    *)
(* and dropping the stream never sends anything again (transport invariant *)
(* 6), and the call ends at the report, not at the release.                *)
StreamImplementsLogicalCall == StreamAbstract!Spec

(* telemetry.rs on on_complete: a protocol error the SDK surfaced leaves   *)
(* the attempt's outcome as the response that opened it.                   *)
ProtocolErrorKeepsOutcome ==
    \A k \in DOMAIN sink :
        stage = "released" /\ seen = "protocol_error"
            => sink[k].final_outcome = "ok"
=============================================================================
