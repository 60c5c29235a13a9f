----------------------------- MODULE CallProofs -----------------------------
(***************************************************************************)
(* Theorems about whole calls, for every client, every set of answers,     *)
(* failures and frames, any retry ceiling and any number of aliases: the   *)
(* retry/failover engine by itself, then the engine's invariants outliving *)
(* the hand-over of a stream, and a call implementing LogicalCall.         *)
(***************************************************************************)
EXTENDS Stream, TLAPS

-----------------------------------------------------------------------------
(*                               The engine                                *)

(* The recorder's hooks keep a recorder well-formed.                       *)
RecorderType ==
    [on : BOOLEAN, recordable : BOOLEAN, custom : BOOLEAN,
     attempts : Seq(AttemptType), failover_used : BOOLEAN, ttft : BOOLEAN,
     current_index : Nat \cup {None}, current_host : Nat \cup {None},
     finished : BOOLEAN]

RecorderOK(r) ==
    /\ r \in RecorderType
    /\ InFlight(r) => /\ r.current_index \in 0 .. Len(r.attempts)
                      /\ r.current_host \in Nat

HeaderType == [a : Nat \cup {None}, po : Outcomes \cup {"none", ""},
               pc : ErrorClasses \cup {"none", "stream_stalled", ""},
               ph : Nat \cup {None}, fo : BOOLEAN]

(* Relabelling a record keeps it one.                                      *)
LEMMA RelabelledOK ==
    ASSUME NEW a \in AttemptType
    PROVE  /\ [a EXCEPT !.moved = TRUE] \in AttemptType
           /\ [a EXCEPT !.outcome = "aborted"] \in AttemptType
  BY ZenonT(30) DEF AttemptType, Outcomes

(* A new recorder is well-formed.                                          *)
LEMMA NewRecorderOK ==
    ASSUME NEW on \in BOOLEAN, NEW recordable \in BOOLEAN, NEW custom \in BOOLEAN
    PROVE  RecorderOK(NewRecorder(on, recordable, custom))
  BY DEF RecorderOK, RecorderType, NewRecorder, InFlight, None

(* begin_attempt keeps a recorder well-formed.                             *)
LEMMA BeginAttemptOK ==
    ASSUME NEW r, RecorderOK(r), NEW host \in Nat
    PROVE  RecorderOK(BeginAttempt(r, host))
  <1>1. CASE r.on
    <2>1. BeginAttempt(r, host) = [r EXCEPT !.current_index = Len(r.attempts),
                                            !.current_host = host]
      BY <1>1 DEF BeginAttempt
    <2>2. Len(r.attempts) \in Nat
      BY DEF RecorderOK, RecorderType
    <2>3. BeginAttempt(r, host) \in RecorderType
      BY <2>1, <2>2, ZenonT(30) DEF RecorderOK, RecorderType
    <2>4. /\ BeginAttempt(r, host).current_index = Len(r.attempts)
          /\ BeginAttempt(r, host).current_host = host
          /\ BeginAttempt(r, host).attempts = r.attempts
      BY <2>1 DEF RecorderOK, RecorderType
    <2> QED BY <2>2, <2>3, <2>4 DEF RecorderOK
  <1>2. CASE ~ r.on
    BY <1>2 DEF BeginAttempt
  <1> QED BY <1>1, <1>2

(* header_value is in the header's vocabulary.                             *)
LEMMA HeaderOK ==
    ASSUME NEW r, RecorderOK(r)
    PROVE  HeaderValue(r) \in HeaderType
  <1>1. NoHeader \in HeaderType
    BY DEF NoHeader, HeaderType
  <1>2. CASE ~ InFlight(r) \/ r.current_index > MaxHeaderIndex \/ r.custom
    BY <1>1, <1>2 DEF HeaderValue
  <1>3. CASE r.current_index = 0
    BY <1>1, <1>3, ZenonT(30) DEF HeaderValue, HeaderType, NoHeader
  <1>4. CASE /\ InFlight(r) /\ r.current_index # 0
             /\ ~ (r.current_index > MaxHeaderIndex \/ r.custom)
    <2> DEFINE previous == Last(r.attempts)
               po == PreviousOutcome(previous)
               pc == PreviousClass(previous)
               ph == previous.host
               fo == r.failover_used
    <2>1. previous \in AttemptType /\ r.current_index \in Nat
      BY <1>4 DEF Last, RecorderOK, RecorderType, InFlight, None
    <2>2. po \in Outcomes \cup {"none", ""}
      BY <2>1, ZenonT(30) DEF PreviousOutcome, AttemptType
    <2>3. pc \in ErrorClasses \cup {"none", "stream_stalled", ""}
      BY <2>1, ZenonT(30) DEF PreviousClass, AttemptType
    <2>4. ph \in Nat /\ fo \in BOOLEAN
      BY <2>1 DEF AttemptType, RecorderOK, RecorderType
    <2>5. HeaderValue(r) = [a |-> r.current_index, po |-> po, pc |-> pc,
                            ph |-> ph, fo |-> fo]
      BY <1>4 DEF HeaderValue
    <2> HIDE DEF previous, po, pc, ph, fo
    <2>6. [a |-> r.current_index, po |-> po, pc |-> pc, ph |-> ph, fo |-> fo]
             \in HeaderType
      BY <2>1, <2>2, <2>3, <2>4, ZenonT(30) DEF HeaderType
    <2> QED BY <2>5, <2>6
  <1> QED BY <1>2, <1>3, <1>4

(* store_attempt replaces or appends one record.                           *)
LEMMA StoreAttemptOK ==
    ASSUME NEW r, RecorderOK(r), InFlight(r), NEW record \in AttemptType
    PROVE  RecorderOK(StoreAttempt(r, record))
  <1>1. r.attempts \in Seq(AttemptType) /\ r.current_index \in Nat
    BY DEF RecorderOK, RecorderType, InFlight, None
  <1>2. CASE Opened(r)
    <2>1. [r.attempts EXCEPT ![r.current_index + 1] = record] \in Seq(AttemptType)
      BY <1>1, <1>2 DEF Opened
    <2>2. Len([r.attempts EXCEPT ![r.current_index + 1] = record]) = Len(r.attempts)
      BY <1>1, <1>2 DEF Opened
    <2> QED
      BY <1>2, <2>1, <2>2 DEF StoreAttempt, RecorderOK, RecorderType, InFlight
  <1>3. CASE ~ Opened(r)
    <2>1. /\ Append(r.attempts, record) \in Seq(AttemptType)
          /\ Len(Append(r.attempts, record)) = Len(r.attempts) + 1
      BY <1>1
    <2> DEFINE s == [r EXCEPT !.attempts = Append(r.attempts, record)]
    <2>2. StoreAttempt(r, record) = s
      BY <1>3, ZenonT(30) DEF StoreAttempt
    <2>3. s \in RecorderType
      BY <2>1 DEF RecorderOK, RecorderType
    <2>4. /\ s.attempts = Append(r.attempts, record)
          /\ s.current_index = r.current_index /\ s.current_host = r.current_host
      BY DEF RecorderOK, RecorderType
    <2> HIDE DEF s
    <2>5. InFlight(s) => /\ s.current_index \in 0 .. Len(s.attempts)
                         /\ s.current_host \in Nat
      BY <1>1, <2>1, <2>4 DEF RecorderOK, InFlight
    <2> QED BY <2>2, <2>3, <2>5, ZenonT(30) DEF RecorderOK
  <1> QED BY <1>2, <1>3

(* on_response records the answer of the attempt in flight.                *)
LEMMA OnResponseOK ==
    ASSUME NEW r, RecorderOK(r), NEW resp \in ResponseType
    PROVE  RecorderOK(OnResponse(r, resp))
  <1>1. CASE ~ InFlight(r)
    BY <1>1 DEF OnResponse
  <1>2. CASE InFlight(r)
    <2> DEFINE record == [host |-> r.current_host,
                          outcome |-> IF resp.status < 400 THEN "ok" ELSE "http_error",
                          http_status |-> resp.status,
                          error_class |-> "none",
                          should_retry |-> resp.verdict,
                          moved |-> FALSE,
                          phase |-> "none"]
    <2>1. record \in AttemptType
      BY <1>2 DEF AttemptType, RecorderOK, Outcomes, Phases, ResponseType
    <2> QED BY <1>2, <2>1, StoreAttemptOK DEF OnResponse
  <1> QED BY <1>1, <1>2

(* on_transport_error records a failure, keeping what the response that    *)
(* opened the attempt said.                                                *)
LEMMA OnTransportErrorOK ==
    ASSUME NEW r, RecorderOK(r), NEW failure \in FailureType,
           NEW opened \in BOOLEAN, NEW started \in BOOLEAN
    PROVE  RecorderOK(OnTransportError(r, failure, opened, started))
  <1>1. CASE ~ InFlight(r)
    BY <1>1 DEF OnTransportError
  <1>2. CASE InFlight(r)
    <2> DEFINE idle == failure.timed_out /\ started
               old == r.attempts[r.current_index + 1]
               record ==
                 [host |-> r.current_host,
                  outcome |-> FailureOutcome(failure.timed_out, started),
                  http_status |-> IF Opened(r) /\ opened
                                  THEN old.http_status ELSE None,
                  error_class |-> IF idle /\ failure.class = "read_timeout"
                                  THEN "stream_stalled" ELSE failure.class,
                  should_retry |-> IF Opened(r) THEN old.should_retry
                                   ELSE "absent",
                  moved |-> FALSE,
                  phase |-> IF idle THEN "idle" ELSE PhaseForClass(failure.class)]
    <2>1. Opened(r) => old \in AttemptType
      BY <1>2 DEF Opened, RecorderOK, RecorderType, InFlight, None
    <2>2. PhaseForClass(failure.class) \in Phases
      BY DEF PhaseForClass, Phases
    <2>3. FailureOutcome(failure.timed_out, started) \in Outcomes
      BY DEF FailureOutcome, Outcomes
    <2>4. record \in AttemptType
      <3>1. record.http_status \in Nat \cup {None}
        BY <2>1 DEF AttemptType
      <3>2. record.should_retry \in Verdicts
        BY <2>1 DEF AttemptType, Verdicts
      <3>3. record.error_class \in ErrorClasses \cup {"none", "stream_stalled"}
        BY DEF FailureType
      <3>4. record.phase \in Phases
        BY <2>2 DEF Phases
      <3>5. record.host \in Nat
        BY <1>2 DEF RecorderOK
      <3> QED BY <2>3, <3>1, <3>2, <3>3, <3>4, <3>5 DEF AttemptType
    <2>5. OnTransportError(r, failure, opened, started) = StoreAttempt(r, record)
      BY <1>2 DEF OnTransportError
    <2> QED BY <1>2, <2>4, <2>5, StoreAttemptOK
  <1> QED BY <1>1, <1>2

(* on_moved marks the latest record.                                       *)
LEMMA OnMovedOK ==
    ASSUME NEW r, RecorderOK(r)
    PROVE  RecorderOK(OnMoved(r))
  <1>1. CASE r.attempts = << >>
    BY <1>1 DEF OnMoved
  <1>2. CASE r.attempts # << >>
    <2> DEFINE marked == [r.attempts EXCEPT ![Len(r.attempts)].moved = TRUE]
    <2>1. r.attempts \in Seq(AttemptType) /\ Len(r.attempts) \in 1 .. Len(r.attempts)
      BY <1>2 DEF RecorderOK, RecorderType
    <2>2. [r.attempts[Len(r.attempts)] EXCEPT !.moved = TRUE] \in AttemptType
      <3>1. r.attempts[Len(r.attempts)] \in AttemptType
        BY <2>1
      <3> QED BY <3>1, RelabelledOK, ZenonT(30)
    <2>3. marked \in Seq(AttemptType) /\ Len(marked) = Len(r.attempts)
      BY <2>1, <2>2
    <2>4. OnMoved(r) = [r EXCEPT !.attempts = marked, !.failover_used = TRUE]
      BY <1>2 DEF OnMoved
    <2> HIDE DEF marked
    <2> QED BY <2>3, <2>4, ZenonT(30) DEF RecorderOK, RecorderType, InFlight
  <1> QED BY <1>1, <1>2

(* on_aborted relabels or adds the attempt in flight.                      *)
LEMMA OnAbortedOK ==
    ASSUME NEW r, RecorderOK(r)
    PROVE  RecorderOK(OnAborted(r))
  <1>1. CASE ~ InFlight(r)
    BY <1>1 DEF OnAborted
  <1>2. CASE InFlight(r) /\ Opened(r)
    <2> DEFINE n == r.current_index + 1
               marked == [r.attempts EXCEPT ![n].outcome = "aborted"]
    <2>1. r.attempts \in Seq(AttemptType) /\ n \in 1 .. Len(r.attempts)
      BY <1>2 DEF RecorderOK, RecorderType, Opened, InFlight, None
    <2>2. [r.attempts[n] EXCEPT !.outcome = "aborted"] \in AttemptType
      <3>1. r.attempts[n] \in AttemptType
        BY <2>1
      <3> QED BY <3>1, RelabelledOK, ZenonT(30)
    <2>3. marked \in Seq(AttemptType) /\ Len(marked) = Len(r.attempts)
      BY <2>1, <2>2
    <2>4. OnAborted(r) = [r EXCEPT !.attempts = marked]
      BY <1>2 DEF OnAborted
    <2> HIDE DEF marked
    <2> QED BY <2>3, <2>4 DEF RecorderOK, RecorderType, InFlight
  <1>3. CASE InFlight(r) /\ ~ Opened(r)
    <2> DEFINE record == [host |-> r.current_host, outcome |-> "aborted",
                          http_status |-> None, error_class |-> "none",
                          should_retry |-> "absent", moved |-> FALSE,
                          phase |-> "none"]
    <2>1. record \in AttemptType
      BY <1>3 DEF AttemptType, Outcomes, Phases, Verdicts, RecorderOK
    <2>2. OnAborted(r) = StoreAttempt(r, record)
      BY <1>3 DEF OnAborted
    <2> QED BY <1>3, <2>1, <2>2, StoreAttemptOK
  <1> QED BY <1>1, <1>2, <1>3

(* finish and Drop leave a well-formed recorder behind.                    *)
LEMMA FinishedOK ==
    ASSUME NEW r, RecorderOK(r)
    PROVE  RecorderOK(Finished(r)) /\ RecorderOK(Dropped(r))
  BY OnAbortedOK, ZenonT(30) DEF RecorderOK, RecorderType, Finished, Dropped, InFlight

-----------------------------------------------------------------------------
(* Type correctness.  TypeInv strengthens TypeOK by what its own induction *)
(* needs: the shape of the whole recorder, that the key is the one Start   *)
(* minted, that a failure body being drained belongs to an answer, and     *)
(* that the engine only sleeps below the retry ceiling.                    *)
TypeInv ==
    /\ call \in Calls
    /\ phase \in {"idle", "ready", "waiting", "draining", "sleeping", "open",
                  "done"}
    /\ attempt \in 0 .. MaxRetries
    /\ phase = "sleeping" => attempt < MaxRetries
    /\ index \in 0 .. CandidateCount(call) - 1
    /\ key = IF phase = "idle" THEN "none" ELSE EnsureIdempotencyKey(call)
    /\ response \in Responses \cup {NoResponse}
    /\ phase = "draining" => response \in Responses
    /\ delay \in Nat
    /\ RecorderOK(rec)
    /\ result \in Results

KeyType == {"none", "", "given", "minted"}

DispositionType == [retry : BOOLEAN, failover : BOOLEAN, retry_after : Int,
                    error : {"api", "timeout", "transport", "config"}]

(* The key a call goes out with is none, empty, given or minted.           *)
LEMMA KeyOK ==
    ASSUME NEW c \in Calls
    PROVE  EnsureIdempotencyKey(c) \in KeyType
  BY EngineAssumption, ZenonT(30) DEF EnsureIdempotencyKey, KeyType, CallType

(* There is always a candidate.                                            *)
LEMMA CandidatesOK ==
    \A c : CandidateCount(c) \in Nat \ {0}
  BY EngineAssumption DEF CandidateCount

(* What the policy makes of an answer or of a transport failure.           *)
LEMMA DispositionOK ==
    /\ \A resp \in Responses : FromHttp(resp) \in DispositionType
    /\ \A e \in {"timeout", "transport", "config"} :
          FromTransport(e) \in DispositionType
    /\ \A f : IntoError(f) \in {"timeout", "transport"}
  <1>1. ASSUME NEW resp \in Responses
        PROVE  FromHttp(resp) \in DispositionType
    <2>1. resp.hint \in HintType
      BY EngineAssumption DEF ResponseType
    <2>2. ParseRetryAfter(resp.hint) \in Int
      BY <2>1 DEF ParseRetryAfter, HintType, AtMost, MaxRetryAfter, None
    <2>3. /\ RetryableStatus(resp.status, resp.verdict) \in BOOLEAN
          /\ FailoverableStatus(resp.status, resp.verdict) \in BOOLEAN
      BY DEF RetryableStatus, FailoverableStatus
    <2> QED BY <2>2, <2>3 DEF FromHttp, DispositionType
  <1>2. ASSUME NEW e \in {"timeout", "transport", "config"}
        PROVE  FromTransport(e) \in DispositionType
    BY DEF FromTransport, DispositionType, RetryableTransport, None
  <1>3. \A f : IntoError(f) \in {"timeout", "transport"}
    BY DEF IntoError
  <1> QED BY <1>1, <1>2, <1>3

(* The backoff is a natural number of milliseconds.                        *)
LEMMA DelayOK ==
    ASSUME NEW n, NEW after \in Int, NEW jitter \in Nat
    PROVE  RetryDelay(n, after, jitter) \in Nat
  BY DEF RetryDelay, AtLeast, AtMost, MaxRetryAfter

(* The end of an attempt keeps the types, whether the loop stops or backs  *)
(* off, and whether or not it moves.                                       *)
LEMMA ConcludeType ==
    ASSUME TypeInv, phase # "idle", NEW r, RecorderOK(r),
           NEW d \in DispositionType, Conclude(r, d),
           UNCHANGED << call, attempt, key, response >>
    PROVE  TypeInv'
  <1>1. CASE Stops(d) /\ EndWith(r, attempt > 0 /\ d.retry, d.error)
             /\ UNCHANGED << index, delay >>
    <2>1. RecorderOK(rec') /\ phase' = "done"
      BY <1>1, FinishedOK DEF EndWith
    <2>2. result' \in Results
      BY <1>1 DEF EndWith, DispositionType, Results
    <2> QED BY <1>1, <2>1, <2>2 DEF TypeInv
  <1>2. CASE ~ Stops(d) /\ phase' = "sleeping"
    <2>1. delay' \in Nat
      BY <1>2, EngineAssumption, DelayOK DEF Conclude, Backoff, DispositionType
    <2>2. RecorderOK(rec')
      BY <1>2, OnMovedOK DEF Conclude
    <2>3. index' \in 0 .. CandidateCount(call) - 1
      <3>1. index' = index \/ (index' = index + 1 /\ CanAdvance)
        BY <1>2 DEF Conclude
      <3> QED BY <3>1, CandidatesOK DEF CanAdvance, TypeInv
    <2>4. attempt < MaxRetries
      BY <1>2, EngineAssumption DEF Stops, TypeInv
    <2>5. UNCHANGED result
      BY <1>2 DEF Conclude
    <2> QED BY <1>2, <2>1, <2>2, <2>3, <2>4, <2>5 DEF TypeInv
  <1> QED BY <1>1, <1>2 DEF Conclude

(* Every step keeps the types.                                             *)
LEMMA TypeStep ==
    TypeInv /\ [Next]_engineVars => TypeInv'
  <1> SUFFICES ASSUME TypeInv, [Next]_engineVars
               PROVE  TypeInv'
    OBVIOUS
  <1> USE EngineAssumption
  <1>0. /\ call \in CallType
        /\ Deadline \in FailureType
        /\ \A f \in TransportFailures : f \in FailureType
    BY DEF TypeInv, Deadline, FailureType, ErrorClasses
  <1>1. CASE Start
    <2>1. RecorderOK(RequestRecorder(call))
      <3>1. /\ (call.telemetry /\ call.plane = "inference" /\ call.tracked) \in BOOLEAN
            /\ (call.method \in {"GET", "POST"}) \in BOOLEAN
            /\ (call.base = "custom") \in BOOLEAN
        OBVIOUS
      <3> QED BY <3>1, NewRecorderOK, Zenon DEF RequestRecorder
    <2>2. CASE Routable(call)
      BY <1>1, <2>1, <2>2 DEF Start, TypeInv
    <2>3. CASE ~ Routable(call)
      BY <1>1, <2>3 DEF Start, TypeInv, Results
    <2> QED BY <2>2, <2>3
  <1>2. CASE BeginSend
    <2>1. index \in Nat
      BY CandidatesOK DEF TypeInv
    <2>2. RecorderOK(BeginAttempt(rec, index))
      BY <2>1, BeginAttemptOK DEF TypeInv
    <2>3. CASE ~ Assembles(call)
      BY <1>2, <2>2, <2>3, ConcludeType, DispositionOK DEF BeginSend
    <2>4. CASE Assembles(call)
      BY <1>2, <2>2, <2>4 DEF BeginSend, TypeInv
    <2> QED BY <2>3, <2>4
  <1>3. CASE Wake
    BY <1>3 DEF Wake, TypeInv
  <1>4. ASSUME NEW failure \in FailureType, SendFails(failure)
        PROVE  TypeInv'
    <2>1. RecorderOK(OnTransportError(rec, failure, FALSE, FALSE))
      BY OnTransportErrorOK, ZenonT(30) DEF TypeInv
    <2>2. FromTransport(IntoError(failure)) \in DispositionType
      BY DispositionOK
    <2> QED BY <1>4, <2>1, <2>2, ConcludeType, ZenonT(30) DEF SendFails
  <1>5. ASSUME NEW failure \in FailureType, DrainFails(failure)
        PROVE  TypeInv'
    <2> DEFINE r == OnTransportError(rec, failure, TRUE, FALSE)
    <2>1. RecorderOK(r)
      BY OnTransportErrorOK, ZenonT(30) DEF TypeInv
    <2>2. FromHttp(response) \in DispositionType
      BY <1>5, DispositionOK DEF DrainFails, TypeInv
    <2>3. CASE Conclude(r, FromHttp(response))
      BY <1>5, <2>1, <2>2, <2>3, ConcludeType, ZenonT(30) DEF DrainFails
    <2>4. CASE EndWith(r, FALSE, IntoError(failure)) /\ UNCHANGED << index, delay >>
      <3>1. RecorderOK(rec') /\ phase' = "done" /\ result' \in Results
        BY <2>1, <2>4, FinishedOK, DispositionOK, ZenonT(30) DEF EndWith, Results
      <3> QED BY <1>5, <2>4, <3>1 DEF DrainFails, TypeInv
    <2> QED BY <1>5, <2>3, <2>4, ZenonT(30) DEF DrainFails
  <1>6. ASSUME NEW failure \in FailureType, BodyFails(failure)
        PROVE  TypeInv'
    <2>1. RecorderOK(OnTransportError(rec, failure, TRUE, FALSE))
      BY OnTransportErrorOK, ZenonT(30) DEF TypeInv
    <2>2. RecorderOK(rec') /\ phase' = "done" /\ result' \in Results
      BY <1>6, <2>1, FinishedOK, DispositionOK, ZenonT(30) DEF BodyFails, EndWith, Results
    <2> QED BY <1>6, <2>2 DEF BodyFails, Buffered, TypeInv
  <1>7. CASE ReceiveHeaders
    <2>1. PICK resp \in Responses :
             /\ rec' = OnResponse(rec, resp)
             /\ \/ phase' = "open" /\ UNCHANGED response
                \/ phase' = "draining" /\ response' = resp
      BY <1>7 DEF ReceiveHeaders
    <2>2. RecorderOK(rec')
      BY <2>1, OnResponseOK DEF TypeInv
    <2> QED BY <1>7, <2>1, <2>2 DEF ReceiveHeaders, TypeInv
  <1>8. CASE DrainCompletes
    BY <1>8, ConcludeType, DispositionOK DEF DrainCompletes, TypeInv
  <1>9. CASE BodyCompletes
    BY <1>9, FinishedOK DEF BodyCompletes, Buffered, EndWith, TypeInv, Results
  <1>10. CASE CallerDrops
    <2>1. RecorderOK(rec') /\ phase' = "done" /\ result' \in Results
      BY <1>10, FinishedOK DEF CallerDrops, EndWith, Results, TypeInv
    <2>2. phase # "idle"
      BY <1>10 DEF CallerDrops, Suspended, Buffered
    <2> QED BY <1>10, <2>1, <2>2 DEF CallerDrops, TypeInv
  <1>11. CASE UNCHANGED engineVars
    BY <1>11 DEF engineVars, TypeInv
  <1> QED
    BY <1>0, <1>1, <1>2, <1>3, <1>4, <1>5, <1>6, <1>7, <1>8, <1>9, <1>10, <1>11
    DEF Next, EngineNext, Local, Environment, DeadlineElapses, TransportBreaks,
        Terminated

(* The initial states are well-typed.                                      *)
LEMMA InitTypeInv == Init => TypeInv
  <1>1. RecorderOK(NewRecorder(FALSE, FALSE, FALSE))
    BY NewRecorderOK, ZenonT(30)
  <1>2. 0 \in 0 .. MaxRetries /\ \A c : 0 \in 0 .. CandidateCount(c) - 1
    BY EngineAssumption, CandidatesOK
  <1>3. Init => RecorderOK(rec)
    BY <1>1, ZenonT(30) DEF Init
  <1>4. Init => /\ attempt \in 0 .. MaxRetries
                /\ index \in 0 .. CandidateCount(call) - 1
    BY <1>2 DEF Init
  <1>5. Init => /\ call \in Calls /\ phase = "idle" /\ key = "none"
                /\ response = NoResponse /\ delay = 0 /\ result = "pending"
    BY DEF Init
  <1> QED BY <1>3, <1>4, <1>5 DEF TypeInv, Results

(* The types, the cursor's range and the attempt ceiling hold in every     *)
(* state of the engine: the candidate indexing of execute cannot panic.    *)
THEOREM TypeCorrect == Spec => []TypeOK
  <1>1. Init => TypeInv
    BY InitTypeInv
  <1>2. TypeInv => TypeOK
    BY KeyOK, ZenonT(30) DEF TypeInv, TypeOK, RecorderOK, RecorderType, KeyType
  <1> QED BY <1>1, <1>2, TypeStep, PTL DEF Spec

-----------------------------------------------------------------------------
(* Resends and the walk over the hosts.  The properties speak of the       *)
(* history only, so the invariant ties the loop to it: how many sends      *)
(* there are in each phase, which answer the last one has and where it     *)
(* went, and that only replay-safe requests get past their first attempt.  *)
AnswerType == [kind : {"none", "http", "failure", "body_failure"},
               status : Nat \cup {None}, verdict : Verdicts,
               class : ErrorClasses \cup {"none"}, timed_out : BOOLEAN]

SendType == [host : Nat, key : KeyType, header : HeaderType, answer : AnswerType]

(* An answer after which the request may go out again.                     *)
Retryable(a) ==
    /\ a.kind # "none"
    /\ a.verdict # "false"
    /\ a.kind # "failure" /\ a.verdict = "absent"
          => a.status = 429 \/ a.status >= 500

(* Where call c goes after an attempt on host h answered by a.             *)
NextHost(c, h, a) ==
    IF GatewayFailure(a) /\ h + 1 < CandidateCount(c) THEN h + 1 ELSE h

ReplaySafe == RequestReplaySafe(call.method, key)

Trying == {"waiting", "draining", "open"}

SendsCounted ==
    /\ phase = "idle" => attempt = 0
    /\ phase \in {"idle", "ready"} => Len(wire) = attempt
    /\ phase \in Trying \cup {"sleeping"} => Len(wire) = attempt + 1
    /\ phase = "done" => Len(wire) \in {attempt, attempt + 1}
    /\ attempt > 0 \/ phase = "sleeping" => ReplaySafe

SendsLinked ==
    /\ \A i \in 1 .. Len(wire) :
          /\ wire[i].key = WireKey
          /\ wire[i].host \in 0 .. CandidateCount(call) - 1
    /\ \A i \in 1 .. Len(wire) - 1 :
          /\ Retryable(wire[i].answer)
          /\ wire[i + 1].host = NextHost(call, wire[i].host, wire[i].answer)

LastSend ==
    Len(wire) > 0 =>
        LET last == wire[Len(wire)]
        IN  /\ phase \in {"sleeping", "ready"} =>
                 /\ Retryable(last.answer)
                 /\ index = NextHost(call, last.host, last.answer)
            /\ phase \in Trying => last.host = index
            /\ phase = "draining" => last.answer = Answered(response)

WalkInv == wire \in Seq(SendType) /\ SendsCounted /\ SendsLinked /\ LastSend

(* Annotating the last send changes its answer and nothing else.           *)
LEMMA NoteOK ==
    ASSUME wire \in Seq(SendType), Len(wire) > 0, NEW a \in AnswerType, Note(a)
    PROVE  /\ wire' \in Seq(SendType)
           /\ Len(wire') = Len(wire)
           /\ \A i \in 1 .. Len(wire) - 1 : wire'[i] = wire[i]
           /\ wire'[Len(wire)].answer = a
           /\ wire'[Len(wire)].host = wire[Len(wire)].host
           /\ wire'[Len(wire)].key = wire[Len(wire)].key
  <1> DEFINE n == Len(wire)
             send == [wire[n] EXCEPT !.answer = a]
  <1>1. wire[n] \in SendType /\ n \in 1 .. Len(wire)
    OBVIOUS
  <1>2. /\ send \in SendType /\ send.answer = a
        /\ send.host = wire[n].host /\ send.key = wire[n].key
    BY <1>1 DEF SendType
  <1>3. wire' = [wire EXCEPT ![n] = send]
    BY DEF Note
  <1> HIDE DEF send
  <1> QED BY <1>1, <1>2, <1>3

(* Annotating the last send keeps the history linked.                      *)
LEMMA NoteLinked ==
    ASSUME wire \in Seq(SendType), Len(wire) > 0, NEW a \in AnswerType, Note(a),
           SendsLinked, UNCHANGED << call, key >>
    PROVE  SendsLinked'
  <1>1. /\ Len(wire') = Len(wire)
        /\ \A i \in 1 .. Len(wire) - 1 : wire'[i] = wire[i]
        /\ wire'[Len(wire)].host = wire[Len(wire)].host
        /\ wire'[Len(wire)].key = wire[Len(wire)].key
    BY NoteOK
  <1>2. WireKey' = WireKey /\ CandidateCount(call)' = CandidateCount(call)
    BY DEF WireKey, KeyPresent, CandidateCount
  <1>3. Len(wire) \in Nat
    OBVIOUS
  <1>4. \A i \in 1 .. Len(wire) : wire'[i].host = wire[i].host /\ wire'[i].key = wire[i].key
    BY <1>1, <1>3
  <1>5. \A i \in 1 .. Len(wire') :
           wire'[i].key = WireKey' /\ wire'[i].host \in 0 .. CandidateCount(call') - 1
    BY <1>1, <1>2, <1>4 DEF SendsLinked
  <1>6. ASSUME NEW i \in 1 .. Len(wire') - 1
        PROVE  /\ Retryable(wire'[i].answer)
               /\ wire'[i + 1].host = NextHost(call', wire'[i].host, wire'[i].answer)
    <2>1. wire'[i] = wire[i] /\ i \in 1 .. Len(wire) - 1
      BY <1>1
    <2>2. wire'[i + 1].host = wire[i + 1].host
      BY <1>1, <1>3, <1>4
    <2>3. call' = call
      OBVIOUS
    <2> QED BY <2>1, <2>2, <2>3 DEF SendsLinked
  <1> QED BY <1>5, <1>6 DEF SendsLinked

(* The policy calls an answer retryable, and moves on it, exactly as the   *)
(* properties read the history.                                            *)
LEMMA PolicyReadsAnswers ==
    ASSUME NEW resp \in Responses, NEW a \in AnswerType,
           a.status = resp.status, a.verdict = resp.verdict,
           a.kind \in {"http", "body_failure"}
    PROVE  /\ FromHttp(resp).retry => Retryable(a)
           /\ FromHttp(resp).failover <=> GatewayFailure(a)
  <1>1. resp.verdict \in Verdicts /\ resp.status \in Nat
    BY EngineAssumption DEF ResponseType
  <1>2. /\ FromHttp(resp).retry <=> RetryableStatus(resp.status, resp.verdict)
        /\ FromHttp(resp).failover <=> FailoverableStatus(resp.status, resp.verdict)
    BY DEF FromHttp
  <1>3. RetryableStatus(resp.status, resp.verdict) => Retryable(a)
    BY <1>1 DEF RetryableStatus, Retryable, Verdicts
  <1>4. FailoverableStatus(resp.status, resp.verdict) <=> GatewayFailure(a)
    BY <1>1 DEF FailoverableStatus, GatewayFailure
  <1> QED BY <1>2, <1>3, <1>4

(* The answers the history is annotated with.                              *)
LEMMA AnswersOK ==
    /\ \A resp \in Responses :
          /\ Answered(resp) \in AnswerType
          /\ Answered(resp).status = resp.status
          /\ Answered(resp).verdict = resp.verdict
          /\ Answered(resp).kind = "http"
    /\ \A f \in FailureType : /\ Failed(f) \in AnswerType
                              /\ Retryable(Failed(f))
                              /\ GatewayFailure(Failed(f))
    /\ \A a \in AnswerType, f \in FailureType :
          /\ BodyFailed(a, f) \in AnswerType
          /\ BodyFailed(a, f).status = a.status
          /\ BodyFailed(a, f).verdict = a.verdict
          /\ BodyFailed(a, f).kind = "body_failure"
  <1>1. ASSUME NEW resp \in Responses
        PROVE  /\ Answered(resp) \in AnswerType
               /\ Answered(resp).status = resp.status
               /\ Answered(resp).verdict = resp.verdict
               /\ Answered(resp).kind = "http"
    BY EngineAssumption, ZenonT(30) DEF Answered, NoAnswer, AnswerType, ResponseType
  <1>2. ASSUME NEW f \in FailureType
        PROVE  /\ Failed(f) \in AnswerType
               /\ Retryable(Failed(f))
               /\ GatewayFailure(Failed(f))
    <2>1. Failed(f) \in AnswerType
      BY ZenonT(30) DEF Failed, NoAnswer, AnswerType, FailureType, Verdicts
    <2>2. Failed(f).kind = "failure" /\ Failed(f).verdict = "absent"
      BY DEF Failed, NoAnswer
    <2> QED BY <2>1, <2>2 DEF Retryable, GatewayFailure
  <1>3. ASSUME NEW a \in AnswerType, NEW f \in FailureType
        PROVE  /\ BodyFailed(a, f) \in AnswerType
               /\ BodyFailed(a, f).status = a.status
               /\ BodyFailed(a, f).verdict = a.verdict
               /\ BodyFailed(a, f).kind = "body_failure"
    BY ZenonT(30) DEF BodyFailed, AnswerType, FailureType
  <1> QED BY <1>1, <1>2, <1>3

(* The end of an attempt keeps the walk, if the disposition reads the      *)
(* answer the history has for it.                                          *)
LEMMA ConcludeWalk ==
    ASSUME TypeInv, NEW r, NEW d \in DispositionType, Conclude(r, d),
           UNCHANGED << call, attempt, key >>,
           attempt > 0 => ReplaySafe,
           wire' \in Seq(SendType), SendsLinked', Len(wire') = attempt + 1,
           wire'[Len(wire')].host = index,
           d.retry => Retryable(wire'[Len(wire')].answer),
           d.retry => (d.failover <=> GatewayFailure(wire'[Len(wire')].answer))
    PROVE  WalkInv'
  <1>0. ReplaySafe' <=> ReplaySafe
    BY DEF ReplaySafe
  <1>1. CASE Stops(d) /\ EndWith(r, attempt > 0 /\ d.retry, d.error)
    <2>1. phase' = "done"
      BY <1>1 DEF EndWith
    <2>2. SendsCounted'
      BY <1>0, <2>1 DEF SendsCounted, Trying
    <2>3. LastSend'
      BY <2>1 DEF LastSend, Trying
    <2> QED BY <2>2, <2>3 DEF WalkInv
  <1>2. CASE ~ Stops(d) /\ phase' = "sleeping"
    <2>1. ReplaySafe /\ d.retry
      BY <1>2 DEF Stops, ReplaySafe
    <2>2. SendsCounted'
      BY <1>0, <1>2, <2>1 DEF SendsCounted, Trying
    <2>3. index' = IF d.failover /\ CanAdvance THEN index + 1 ELSE index
      BY <1>2 DEF Conclude
    <2>4. index' = NextHost(call', wire'[Len(wire')].host, wire'[Len(wire')].answer)
      BY <2>1, <2>3 DEF NextHost, CanAdvance
    <2>5. LastSend'
      BY <1>2, <2>1, <2>4 DEF LastSend, Trying
    <2> QED BY <2>2, <2>5 DEF WalkInv
  <1> QED BY <1>1, <1>2 DEF Conclude

(* Steps that end or suspend the call without touching the history.        *)
LEMMA QuietWalk ==
    ASSUME TypeInv, WalkInv,
           UNCHANGED << call, attempt, index, key, response, wire >>,
           phase' \in {phase, "done"}
    PROVE  WalkInv'
  <1>1. (ReplaySafe' <=> ReplaySafe) /\ WireKey' = WireKey
    BY DEF ReplaySafe, WireKey
  <1>2. SendsCounted'
    <2>1. attempt \in Nat /\ Len(wire) \in Nat /\ attempt + 1 # attempt
      BY EngineAssumption DEF TypeInv, WalkInv
    <2>2. Len(wire) \in {attempt, attempt + 1}
      BY DEF TypeInv, WalkInv, SendsCounted, Trying
    <2>3. CASE phase' = phase
      BY <1>1, <2>3 DEF WalkInv, SendsCounted
    <2>4. CASE phase' = "done"
      BY <1>1, <2>2, <2>4 DEF WalkInv, SendsCounted, Trying
    <2> QED BY <2>3, <2>4
  <1>3. SendsLinked'
    BY <1>1 DEF WalkInv, SendsLinked
  <1>4. LastSend'
    BY DEF WalkInv, LastSend, Trying
  <1> QED BY <1>2, <1>3, <1>4 DEF WalkInv

(* Every step keeps the walk.                                              *)
LEMMA WalkStep ==
    TypeInv /\ WalkInv /\ [Next]_engineVars => WalkInv'
  <1> SUFFICES ASSUME TypeInv, WalkInv, [Next]_engineVars
               PROVE  WalkInv'
    OBVIOUS
  <1>0. /\ Deadline \in FailureType
        /\ \A f \in TransportFailures : f \in FailureType
    BY EngineAssumption DEF Deadline, FailureType, ErrorClasses
  <1>t. attempt \in Nat /\ Len(wire) \in Nat /\ index \in Nat
    BY EngineAssumption, CandidatesOK DEF TypeInv, WalkInv
  <1>1. CASE Start
    <2>1. wire = << >> /\ attempt = 0 /\ wire' = wire /\ attempt' = attempt
      BY <1>1, <1>t DEF Start, WalkInv, SendsCounted
    <2>2. Len(wire') = 0
      BY <2>1
    <2>3. phase' \in {"done", "ready"}
      BY <1>1 DEF Start
    <2>4. SendsCounted' /\ SendsLinked' /\ LastSend'
      BY <2>1, <2>2, <2>3 DEF SendsCounted, SendsLinked, LastSend, Trying
    <2> QED BY <2>1, <2>4 DEF WalkInv
  <1>2. CASE BeginSend
    <2> DEFINE r == BeginAttempt(rec, index)
               send == [host |-> index, key |-> WireKey, header |-> HeaderValue(r),
                        answer |-> NoAnswer]
    <2>1. CASE ~ Assembles(call)
      <3>1. Stops(FromTransport("config"))
        BY ZenonT(30) DEF Stops, FromTransport, RetryableTransport
      <3>2. phase' = "done" /\ UNCHANGED << call, attempt, index, key, wire >>
        BY <1>2, <2>1, <3>1 DEF BeginSend, Conclude, EndWith
      <3>3. phase = "ready"
        BY <1>2 DEF BeginSend
      <3>4. SendsCounted'
        BY <1>t, <3>2, <3>3 DEF WalkInv, SendsCounted, Trying, ReplaySafe
      <3>5. SendsLinked'
        BY <3>2 DEF WalkInv, SendsLinked, WireKey
      <3>6. LastSend'
        BY <3>2 DEF LastSend, Trying
      <3> QED BY <3>2, <3>4, <3>5, <3>6 DEF WalkInv
    <2>2. CASE Assembles(call)
      <3>1. /\ wire' = Append(wire, send) /\ phase' = "waiting" /\ phase = "ready"
            /\ UNCHANGED << call, attempt, index, key >>
        BY <1>2, <2>2 DEF BeginSend
      <3>2. send \in SendType
        <4>1. RecorderOK(r)
          BY <1>t, BeginAttemptOK DEF TypeInv
        <4>2. HeaderValue(r) \in HeaderType
          BY <4>1, HeaderOK
        <4>3. NoAnswer \in AnswerType
          BY DEF NoAnswer, AnswerType, Verdicts
        <4>4. WireKey \in KeyType
          BY <3>1, KeyOK, ZenonT(30) DEF WireKey, TypeInv, KeyType
        <4> QED BY <1>t, <4>2, <4>3, <4>4 DEF SendType
      <3> HIDE DEF send
      <3>3. /\ wire' \in Seq(SendType) /\ Len(wire') = Len(wire) + 1
            /\ \A i \in 1 .. Len(wire) : wire'[i] = wire[i]
            /\ wire'[Len(wire) + 1] = send
        BY <3>1, <3>2 DEF WalkInv
      <3>4. send.host = index /\ send.key = WireKey
        BY DEF send
      <3>5. WireKey' = WireKey /\ (ReplaySafe' <=> ReplaySafe)
        BY <3>1 DEF WireKey, ReplaySafe
      <3>6. SendsCounted'
        BY <1>t, <3>1, <3>3, <3>5 DEF WalkInv, SendsCounted, Trying
      <3>7. \A i \in 1 .. Len(wire') :
               /\ wire'[i].key = WireKey'
               /\ wire'[i].host \in 0 .. CandidateCount(call') - 1
        BY <1>t, <3>1, <3>3, <3>4, <3>5 DEF WalkInv, SendsLinked, TypeInv
      <3>8. ASSUME NEW i \in 1 .. Len(wire') - 1
            PROVE  /\ Retryable(wire'[i].answer)
                   /\ wire'[i + 1].host
                         = NextHost(call', wire'[i].host, wire'[i].answer)
        <4>1. i \in 1 .. Len(wire) /\ wire'[i] = wire[i]
          BY <1>t, <3>3
        <4>2. CASE i = Len(wire)
          BY <1>t, <3>1, <3>3, <3>4, <4>1, <4>2 DEF WalkInv, LastSend
        <4>3. CASE i < Len(wire)
          <5>1. wire'[i + 1] = wire[i + 1] /\ i \in 1 .. Len(wire) - 1
            BY <1>t, <3>3, <4>1, <4>3
          <5> QED BY <3>1, <4>1, <5>1 DEF WalkInv, SendsLinked
        <4> QED BY <1>t, <4>1, <4>2, <4>3
      <3>9. LastSend'
        BY <1>t, <3>1, <3>3, <3>4 DEF LastSend, Trying
      <3> QED BY <3>3, <3>6, <3>7, <3>8, <3>9 DEF WalkInv, SendsLinked
    <2> QED BY <2>1, <2>2
  <1>3. CASE Wake
    <2>1. /\ phase = "sleeping" /\ phase' = "ready" /\ attempt' = attempt + 1
          /\ UNCHANGED << call, index, key, wire >>
      BY <1>3 DEF Wake
    <2>2. SendsCounted'
      BY <1>t, <2>1 DEF WalkInv, SendsCounted, Trying, ReplaySafe
    <2>3. SendsLinked'
      BY <2>1 DEF WalkInv, SendsLinked, WireKey
    <2>4. LastSend'
      BY <2>1 DEF WalkInv, LastSend, Trying
    <2> QED BY <2>1, <2>2, <2>3, <2>4 DEF WalkInv
  <1>4. ASSUME NEW f \in FailureType, SendFails(f)
        PROVE  WalkInv'
    <2>w. phase = "waiting"
      BY <1>4 DEF SendFails
    <2>1. Len(wire) = attempt + 1 /\ wire[Len(wire)].host = index
      BY <1>t, <2>w DEF WalkInv, SendsCounted, LastSend, Trying
    <2>2. /\ Failed(f) \in AnswerType /\ Retryable(Failed(f))
          /\ GatewayFailure(Failed(f))
      BY AnswersOK
    <2>3. Note(Failed(f)) /\ UNCHANGED << call, attempt, key >>
      BY <1>4 DEF SendFails
    <2>4. wire \in Seq(SendType) /\ Len(wire) > 0 /\ SendsLinked
      BY <1>t, <2>1 DEF WalkInv
    <2>5. /\ wire' \in Seq(SendType) /\ Len(wire') = Len(wire)
          /\ wire'[Len(wire)].answer = Failed(f)
          /\ wire'[Len(wire)].host = wire[Len(wire)].host
      BY <2>2, <2>3, <2>4, NoteOK
    <2>6. SendsLinked'
      BY <2>2, <2>3, <2>4, NoteLinked
    <2>7. /\ FromTransport(IntoError(f)) \in DispositionType
          /\ FromTransport(IntoError(f)).failover
      BY DispositionOK, ZenonT(30) DEF FromTransport
    <2>8. attempt > 0 => ReplaySafe
      BY DEF WalkInv, SendsCounted
    <2>9. Conclude(OnTransportError(rec, f, FALSE, FALSE), FromTransport(IntoError(f)))
      BY <1>4, ZenonT(30) DEF SendFails
    <2> QED BY <2>1, <2>2, <2>3, <2>5, <2>6, <2>7, <2>8, <2>9, ConcludeWalk, ZenonT(30)
  <1>5. ASSUME phase = "draining"
        PROVE  /\ Len(wire) = attempt + 1 /\ Len(wire) > 0
               /\ wire[Len(wire)].host = index
               /\ wire[Len(wire)].answer = Answered(response)
               /\ response \in Responses
    BY <1>5, <1>t DEF TypeInv, WalkInv, SendsCounted, LastSend, Trying
  <1>6. CASE DrainCompletes
    <2>1. phase = "draining" /\ UNCHANGED << call, attempt, key, wire >>
      BY <1>6 DEF DrainCompletes
    <2>2. /\ FromHttp(response).retry => Retryable(Answered(response))
          /\ FromHttp(response).failover <=> GatewayFailure(Answered(response))
      BY <1>5, <2>1, AnswersOK, PolicyReadsAnswers
    <2>3. SendsLinked' /\ wire' \in Seq(SendType)
      BY <2>1 DEF WalkInv, SendsLinked, WireKey
    <2>4. FromHttp(response) \in DispositionType
      BY <1>5, <2>1, DispositionOK
    <2>5. Conclude(rec, FromHttp(response)) /\ (attempt > 0 => ReplaySafe)
      BY <1>6 DEF DrainCompletes, WalkInv, SendsCounted
    <2> QED BY <1>5, <2>1, <2>2, <2>3, <2>4, <2>5, ConcludeWalk
  <1>7. ASSUME NEW f \in FailureType, DrainFails(f)
        PROVE  WalkInv'
    <2> DEFINE a == BodyFailed(wire[Len(wire)].answer, f)
               r == OnTransportError(rec, f, TRUE, FALSE)
    <2>1. phase = "draining" /\ UNCHANGED << call, attempt, key >> /\ Note(a)
      BY <1>7 DEF DrainFails, Last
    <2>d. response \in Responses /\ wire[Len(wire)].answer = Answered(response)
      BY <1>5, <2>1
    <2>e. /\ Answered(response) \in AnswerType
          /\ Answered(response).status = response.status
          /\ Answered(response).verdict = response.verdict
      BY <2>d, AnswersOK
    <2>2. /\ a \in AnswerType /\ a.status = response.status
          /\ a.verdict = response.verdict /\ a.kind = "body_failure"
      BY <2>d, <2>e, AnswersOK
    <2> HIDE DEF a
    <2>3. wire \in Seq(SendType) /\ SendsLinked /\ (attempt > 0 => ReplaySafe)
      BY DEF WalkInv, SendsCounted
    <2>4. /\ wire' \in Seq(SendType) /\ Len(wire') = Len(wire)
          /\ wire'[Len(wire)].answer = a
          /\ wire'[Len(wire)].host = wire[Len(wire)].host
      BY <1>5, <2>1, <2>2, <2>3, NoteOK
    <2>5. SendsLinked'
      BY <1>5, <2>1, <2>2, <2>3, NoteLinked
    <2>6. /\ FromHttp(response).retry => Retryable(a)
          /\ FromHttp(response).failover <=> GatewayFailure(a)
      BY <1>5, <2>1, <2>2, PolicyReadsAnswers
    <2>7. CASE Conclude(r, FromHttp(response))
      <3>1. FromHttp(response) \in DispositionType
        BY <1>5, <2>1, DispositionOK
      <3> QED BY <1>5, <2>1, <2>3, <2>4, <2>5, <2>6, <2>7, <3>1, ConcludeWalk, ZenonT(30)
    <2>8. CASE phase' = "done"
      <3>1. SendsCounted'
        BY <1>5, <1>t, <2>1, <2>3, <2>4, <2>8 DEF SendsCounted, Trying, ReplaySafe
      <3>2. LastSend'
        BY <2>8 DEF LastSend, Trying
      <3> QED BY <2>4, <2>5, <3>1, <3>2 DEF WalkInv
    <2> QED BY <1>7, <2>7, <2>8, ZenonT(30) DEF DrainFails, EndWith
  <1>8. ASSUME NEW f \in FailureType, BodyFails(f)
        PROVE  WalkInv'
    <2> DEFINE a == BodyFailed(wire[Len(wire)].answer, f)
    <2>1. /\ phase = "open" /\ phase' = "done" /\ Note(a)
          /\ UNCHANGED << call, attempt, key >>
      BY <1>8 DEF BodyFails, Buffered, EndWith, Last
    <2>2. /\ wire \in Seq(SendType) /\ SendsLinked /\ (attempt > 0 => ReplaySafe)
          /\ Len(wire) = attempt + 1 /\ Len(wire) > 0
      BY <1>t, <2>1 DEF WalkInv, SendsCounted, Trying
    <2>3. wire[Len(wire)].answer \in AnswerType
      <3>1. Len(wire) \in 1 .. Len(wire)
        BY <1>t, <2>2
      <3>2. wire[Len(wire)] \in SendType
        BY <2>2, <3>1
      <3> QED BY <3>2 DEF SendType
    <2>4. a \in AnswerType
      BY <2>3, AnswersOK
    <2> HIDE DEF a
    <2>5. wire' \in Seq(SendType) /\ Len(wire') = Len(wire)
      BY <2>1, <2>2, <2>4, NoteOK
    <2>6. SendsLinked'
      BY <2>1, <2>2, <2>4, NoteLinked
    <2>7. SendsCounted'
      BY <1>t, <2>1, <2>2, <2>5 DEF SendsCounted, Trying, ReplaySafe
    <2>8. LastSend'
      BY <2>1 DEF LastSend, Trying
    <2> QED BY <2>5, <2>6, <2>7, <2>8 DEF WalkInv
  <1>9. CASE ReceiveHeaders
    <2>1. PICK resp \in Responses :
             /\ Note(Answered(resp))
             /\ \/ phase' = "open"
                \/ phase' = "draining" /\ response' = resp
      BY <1>9 DEF ReceiveHeaders
    <2>2. phase = "waiting" /\ UNCHANGED << call, attempt, index, key >>
      BY <1>9 DEF ReceiveHeaders
    <2>3. /\ wire \in Seq(SendType) /\ SendsLinked /\ (attempt > 0 => ReplaySafe)
          /\ Len(wire) = attempt + 1 /\ Len(wire) > 0
          /\ wire[Len(wire)].host = index
      BY <1>t, <2>2 DEF WalkInv, SendsCounted, LastSend, Trying
    <2>4. Answered(resp) \in AnswerType
      BY AnswersOK
    <2>5. /\ wire' \in Seq(SendType) /\ Len(wire') = Len(wire)
          /\ wire'[Len(wire)].answer = Answered(resp)
          /\ wire'[Len(wire)].host = wire[Len(wire)].host
      BY <2>1, <2>3, <2>4, NoteOK
    <2>6. SendsLinked'
      BY <2>1, <2>2, <2>3, <2>4, NoteLinked
    <2>7. SendsCounted'
      BY <1>t, <2>1, <2>2, <2>3, <2>5 DEF SendsCounted, Trying, ReplaySafe
    <2>8. LastSend'
      BY <2>1, <2>2, <2>3, <2>5 DEF LastSend, Trying
    <2> QED BY <2>5, <2>6, <2>7, <2>8 DEF WalkInv
  <1>10. CASE BodyCompletes
    BY <1>10, QuietWalk DEF BodyCompletes, Buffered, EndWith
  <1>11. CASE CallerDrops
    BY <1>11, QuietWalk DEF CallerDrops, Suspended, Buffered, EndWith
  <1>12. CASE UNCHANGED engineVars
    BY <1>12, QuietWalk DEF engineVars
  <1> QED
    BY <1>0, <1>1, <1>2, <1>3, <1>4, <1>6, <1>7, <1>8, <1>9, <1>10, <1>11, <1>12
    DEF Next, EngineNext, Local, Environment, DeadlineElapses, TransportBreaks,
        Terminated

(* The walk invariant holds initially, and it is what the properties need. *)
LEMMA InitWalkInv == Init => WalkInv
  <1> SUFFICES ASSUME Init PROVE WalkInv
    OBVIOUS
  <1>1. wire = << >> /\ attempt = 0 /\ phase = "idle"
    BY DEF Init
  <1>2. Len(wire) = 0 /\ wire \in Seq(SendType)
    BY <1>1
  <1> QED BY <1>1, <1>2 DEF WalkInv, SendsCounted, SendsLinked, LastSend, Trying

(* Every resend of the walk is a safe one.                                 *)
LEMMA WalkIsSafe == TypeInv /\ WalkInv => ResendsAreSafe
  <1> SUFFICES ASSUME TypeInv, WalkInv PROVE ResendsAreSafe
    OBVIOUS
  <1>1. /\ attempt \in 0 .. MaxRetries /\ Len(wire) \in Nat
        /\ Len(wire) \in {attempt, attempt + 1}
    BY DEF TypeInv, WalkInv, SendsCounted, Trying
  <1>2. Len(wire) <= MaxRetries + 1
    BY <1>1, EngineAssumption
  <1>3. ASSUME NEW i \in Resent
        PROVE  /\ \/ call.method \in {"GET", "HEAD", "OPTIONS", "TRACE"}
                  \/ wire[i].key \in {"given", "minted"}
               /\ wire[i + 1].key = wire[i].key
               /\ Retryable(wire[i].answer)
    <2>1. i \in 1 .. Len(wire) - 1 /\ i + 1 \in 1 .. Len(wire)
      BY <1>1, <1>3 DEF Resent, Sends
    <2>2. attempt > 0
      BY <1>1, <2>1
    <2>3. ReplaySafe
      BY <2>2 DEF WalkInv, SendsCounted
    <2>4. wire[i].key = WireKey /\ wire[i + 1].key = WireKey
      BY <2>1 DEF WalkInv, SendsLinked
    <2>5. KeyPresent(key) => WireKey \in {"given", "minted"}
      BY KeyOK, ZenonT(30) DEF WireKey, KeyPresent, TypeInv, KeyType
    <2> QED BY <2>1, <2>3, <2>4, <2>5
        DEF ReplaySafe, RequestReplaySafe, WalkInv, SendsLinked
  <1> QED BY <1>2, <1>3 DEF ResendsAreSafe, Retryable

(* The walk moves on gateway failures and otherwise stays.                 *)
LEMMA WalkMoves == TypeInv /\ WalkInv => MovesOnlyOnGatewayFailure
  <1> SUFFICES ASSUME TypeInv, WalkInv, NEW i \in Resent
               PROVE  wire[i + 1].host = NextHost(call, wire[i].host, wire[i].answer)
    BY DEF MovesOnlyOnGatewayFailure, NextHost
  <1>1. i \in 1 .. Len(wire) - 1
    BY DEF Resent, Sends, WalkInv
  <1> QED BY <1>1 DEF WalkInv, SendsLinked

(* With one candidate there is nowhere to move.                            *)
LEMMA WalkStays == TypeInv /\ WalkInv => PinnedCallsNeverMove
  <1> SUFFICES ASSUME WalkInv, NEW i \in Sends,
                      \/ call.plane = "control" \/ call.base # "default"
                      \/ ~ call.regional_failover
               PROVE  wire[i].host = 0
    BY DEF PinnedCallsNeverMove
  <1>1. CandidateCount(call) = 1
    BY DEF CandidateCount
  <1> QED BY <1>1 DEF WalkInv, SendsLinked, Sends

(* A request is sent again only when that is safe: see ResendsAreSafe.     *)
THEOREM ResendsSafe == Spec => []ResendsAreSafe
  BY InitTypeInv, InitWalkInv, TypeStep, WalkStep, WalkIsSafe, PTL DEF Spec

(* Attempts walk forward over the candidates, exactly on gateway-level     *)
(* failures: see MovesOnlyOnGatewayFailure.                                *)
THEOREM MovesOnGatewayFailure == Spec => []MovesOnlyOnGatewayFailure
  BY InitTypeInv, InitWalkInv, TypeStep, WalkStep, WalkMoves, PTL DEF Spec

(* Custom bases, regional pins, the control plane and pinned clients stay  *)
(* on their host: see PinnedCallsNeverMove.                                *)
THEOREM PinnedStay == Spec => []PinnedCallsNeverMove
  BY InitTypeInv, InitWalkInv, TypeStep, WalkStep, WalkStays, PTL DEF Spec

-----------------------------------------------------------------------------
(*                          Calls with a stream                            *)

(* What the recorder's hooks leave alone.                                  *)
LEMMA StoreKeepsFinished ==
    ASSUME NEW r, RecorderOK(r), NEW record
    PROVE  StoreAttempt(r, record).finished = r.finished
  BY DEF StoreAttempt, RecorderOK, RecorderType

(* on_transport_error stores a record or does nothing.                     *)
LEMMA ErrorStores ==
    ASSUME NEW r, NEW f, NEW opened, NEW started
    PROVE  \/ OnTransportError(r, f, opened, started) = r
           \/ \E record : OnTransportError(r, f, opened, started) = StoreAttempt(r, record)
  BY ZenonT(30) DEF OnTransportError

(* Only finish sets the finished flag, and it leaves the attempts alone.   *)
LEMMA HooksKeepFinished ==
    ASSUME NEW r, RecorderOK(r)
    PROVE  /\ \A h : BeginAttempt(r, h).finished = r.finished
           /\ \A h : BeginAttempt(r, h).attempts = r.attempts
           /\ \A resp : OnResponse(r, resp).finished = r.finished
           /\ \A f, opened, started :
                 OnTransportError(r, f, opened, started).finished = r.finished
           /\ OnMoved(r).finished = r.finished
           /\ OnFirstEvent(r).finished = r.finished
           /\ OnAborted(r).finished = r.finished
           /\ Finished(r).finished = TRUE /\ Finished(r).attempts = r.attempts
  <1>1. \A record : StoreAttempt(r, record).finished = r.finished
    BY StoreKeepsFinished
  <1>2. /\ \A h : BeginAttempt(r, h).finished = r.finished
        /\ \A h : BeginAttempt(r, h).attempts = r.attempts
    BY DEF BeginAttempt, RecorderOK, RecorderType
  <1>3. \A resp : OnResponse(r, resp).finished = r.finished
    BY <1>1 DEF OnResponse
  <1>4. \A f, opened, started :
           OnTransportError(r, f, opened, started).finished = r.finished
    BY <1>1, ErrorStores, ZenonT(30)
  <1>5. OnMoved(r).finished = r.finished /\ OnFirstEvent(r).finished = r.finished
    BY DEF OnMoved, OnFirstEvent, RecorderOK, RecorderType
  <1>6. OnAborted(r).finished = r.finished
    BY <1>1 DEF OnAborted, RecorderOK, RecorderType
  <1>7. Finished(r).finished = TRUE /\ Finished(r).attempts = r.attempts
    BY DEF Finished, RecorderOK, RecorderType
  <1> QED BY <1>2, <1>3, <1>4, <1>5, <1>6, <1>7

(* The same for on_transport_error with the flags its callers pass.        *)
LEMMA FailureKeepsFinished ==
    ASSUME NEW r, RecorderOK(r), NEW f \in FailureType
    PROVE  /\ OnTransportError(r, f, FALSE, FALSE).finished = r.finished
           /\ OnTransportError(r, f, TRUE, FALSE).finished = r.finished
           /\ \A started : OnTransportError(r, f, TRUE, started).finished = r.finished
  <1>1. \A record : StoreAttempt(r, record).finished = r.finished
    BY StoreKeepsFinished
  <1>2. /\ OnTransportError(r, f, FALSE, FALSE).finished = r.finished
        /\ OnTransportError(r, f, TRUE, FALSE).finished = r.finished
    BY <1>1, ErrorStores, ZenonT(30)
  <1>3. ASSUME NEW started
        PROVE  OnTransportError(r, f, TRUE, started).finished = r.finished
    BY <1>1, ErrorStores, ZenonT(30)
  <1> QED BY <1>2, <1>3, ZenonT(30)

(* on_event keeps a recorder well-formed.                                  *)
LEMMA FirstEventOK ==
    ASSUME NEW r, RecorderOK(r)
    PROVE  RecorderOK(OnFirstEvent(r))
  BY ZenonT(30) DEF OnFirstEvent, RecorderOK, RecorderType, InFlight

(* finish hands one event to the sink at most, none without an attempt,    *)
(* and none the second time.                                               *)
AtMostOneEvent(s) == s = << >> \/ \E e : s = << e >>

(* What finish adds to the sink.                                           *)
LEMMA ReportsOnce ==
    ASSUME NEW r, NEW exhausted, NEW s
    PROVE  /\ s = << >> => AtMostOneEvent(s \o Reports(r, exhausted))
           /\ s = << >> /\ r.attempts = << >> => s \o Reports(r, exhausted) = << >>
           /\ AtMostOneEvent(s) /\ r.finished => s \o Reports(r, exhausted) = s
           /\ AtMostOneEvent(s) => Len(s) \in {0, 1}
  <1>1. Reports(r, exhausted) \in {<< >>, << RequestEvent(r, exhausted) >>}
    BY DEF Reports
  <1>2. \A e : << >> \o << e >> = << e >> /\ << e >> \o << >> = << e >>
    OBVIOUS
  <1>3. << >> \o << >> = << >> /\ Len(<< >>) = 0 /\ \A e : Len(<< e >>) = 1
    OBVIOUS
  <1>4. r.finished \/ r.attempts = << >> => Reports(r, exhausted) = << >>
    BY DEF Reports
  <1> HIDE DEF Reports
  <1> QED BY <1>1, <1>2, <1>3, <1>4, ZenonT(30) DEF AtMostOneEvent
-----------------------------------------------------------------------------
(* The report.  A call has ended when it returned, was dropped, or handed  *)
(* its report over; until then the sink has nothing of it, and a call that *)
(* never sent anything has nothing to report.  A stream is in its          *)
(* consumer's hands only after the engine handed it over.                  *)
Ended == phase = "done" \/ rec.finished

ReportInv ==
    /\ AtMostOneEvent(sink)
    /\ ~ Ended => sink = << >>
    /\ Len(wire) = 0 => rec.attempts = << >>
    /\ phase \notin {"open", "done"} => ~ rec.finished

StageInv ==
    /\ stage \in {"reading", "terminal", "ended"} => HandedOver
    /\ body_started \in BOOLEAN

AbstractStep == StreamAbstract!Next \/ UNCHANGED StreamAbstract!vars

(* Steps of the call as steps of LogicalCall: one it does not see.         *)
LEMMA AsStutter ==
    ASSUME UNCHANGED << call, index >>, Len(wire') = Len(wire),
           Len(sink') = Len(sink), Ended' <=> Ended
    PROVE  AbstractStep
  <1>1. (phase' = "done" \/ rec'.finished) = (phase = "done" \/ rec.finished)
    BY DEF Ended
  <1> QED BY <1>1 DEF AbstractStep, StreamAbstract!vars

(* The end of the call, reported or not.                                   *)
LEMMA AsEnd ==
    ASSUME UNCHANGED << call, index >>, Len(wire') = Len(wire),
           ~ Ended, Ended', Len(sink') \in {0, 1},
           Len(wire) = 0 => Len(sink') = 0
    PROVE  AbstractStep
  <1>1. (phase' = "done" \/ rec'.finished) = TRUE
    BY DEF Ended
  <1>2. StreamAbstract!End
    BY <1>1 DEF StreamAbstract!End, Ended
  <1> QED BY <1>2 DEF AbstractStep, StreamAbstract!Next

(* A move to the next candidate.                                           *)
LEMMA AsMove ==
    ASSUME UNCHANGED << call, sink >>, Len(wire') = Len(wire), ~ Ended, ~ Ended',
           RequestReplaySafe(call.method, EnsureIdempotencyKey(call)),
           Len(wire) \in 1 .. MaxRetries, CanAdvance, index' = index + 1
    PROVE  AbstractStep
  <1>1. (phase' = "done" \/ rec'.finished) = (phase = "done" \/ rec.finished)
    BY DEF Ended
  <1>2. Len(wire) \in 1 .. (MaxRetries + 1) - 1
    BY EngineAssumption
  <1>3. StreamAbstract!Move
    BY <1>1, <1>2 DEF StreamAbstract!Move, Ended, CanAdvance
  <1> QED BY <1>3 DEF AbstractStep, StreamAbstract!Next

(* An attempt going out.                                                   *)
LEMMA AsSend ==
    ASSUME UNCHANGED << call, index, sink >>, Len(wire) \in Nat,
           Len(wire') = Len(wire) + 1, ~ Ended, ~ Ended', Len(wire) <= MaxRetries,
           Len(wire) > 0 => RequestReplaySafe(call.method, EnsureIdempotencyKey(call))
    PROVE  AbstractStep
  <1>1. (phase' = "done" \/ rec'.finished) = (phase = "done" \/ rec.finished)
    BY DEF Ended
  <1>2. Len(wire) = 0 \/ Len(wire) > 0
    OBVIOUS
  <1>3. Len(wire) < MaxRetries + 1
    BY EngineAssumption
  <1>4. StreamAbstract!Send
    BY <1>1, <1>2, <1>3 DEF StreamAbstract!Send, Ended
  <1> QED BY <1>4 DEF AbstractStep, StreamAbstract!Next

(* Finishing the record ends the call once; done again it changes nothing. *)
LEMMA FinishRefines ==
    ASSUME TypeInv, ReportInv, NEW r, RecorderOK(r), NEW exhausted,
           r.finished = rec.finished, Len(wire) = 0 => r.attempts = << >>,
           rec' = Finished(r), sink' = sink \o Reports(r, exhausted),
           UNCHANGED << call, index >>, Len(wire') = Len(wire),
           phase # "done", phase' \in {"open", "done"}
    PROVE  ReportInv' /\ AbstractStep
  <1>1. rec'.finished = TRUE /\ rec'.attempts = r.attempts
    BY HooksKeepFinished, ZenonT(30)
  <1>2. Ended'
    BY <1>1 DEF Ended
  <1>3. CASE rec.finished
    <2>1. sink' = sink
      BY <1>3, ReportsOnce, ZenonT(30) DEF ReportInv
    <2>2. AbstractStep
      BY <1>2, <1>3, <2>1, AsStutter DEF Ended
    <2> QED BY <1>1, <1>2, <2>1, <2>2 DEF ReportInv
  <1>4. CASE ~ rec.finished
    <2>1. ~ Ended /\ sink = << >>
      BY <1>4 DEF Ended, ReportInv
    <2>2. /\ AtMostOneEvent(sink')
          /\ r.attempts = << >> => sink' = << >>
      BY <2>1, ReportsOnce, ZenonT(30)
    <2>3. Len(sink') \in {0, 1} /\ (Len(wire) = 0 => Len(sink') = 0)
      BY <2>2, ReportsOnce, ZenonT(30)
    <2>4. AbstractStep
      BY <1>2, <2>1, <2>3, AsEnd
    <2> QED BY <1>1, <1>2, <2>2, <2>4 DEF ReportInv
  <1>5. rec.finished \in BOOLEAN
    BY DEF TypeInv, RecorderOK, RecorderType
  <1> QED BY <1>3, <1>4, <1>5

(* The end of an attempt ends the call, moves it, or does neither.         *)
LEMMA ConcludeRefines ==
    ASSUME TypeInv, WalkInv, ReportInv, phase \notin {"idle", "open", "done"},
           NEW r, RecorderOK(r), NEW d, Conclude(r, d),
           r.finished = rec.finished, Len(wire) = 0 => r.attempts = << >>,
           ~ Stops(d) => Len(wire) = attempt + 1,
           UNCHANGED << call, attempt, key >>, Len(wire') = Len(wire)
    PROVE  ReportInv' /\ AbstractStep
  <1>1. ~ Ended /\ ~ rec.finished /\ sink = << >>
    BY DEF Ended, ReportInv
  <1>2. CASE Stops(d) /\ EndWith(r, attempt > 0 /\ d.retry, d.error)
             /\ UNCHANGED << index, delay >>
    <2>1. /\ rec' = Finished(r) /\ phase' = "done"
          /\ sink' = sink \o Reports(r, attempt > 0 /\ d.retry)
      BY <1>2 DEF EndWith
    <2> QED BY <1>2, <2>1, FinishRefines
  <1>3. CASE ~ Stops(d) /\ phase' = "sleeping"
    <2>1. /\ attempt \in Nat /\ attempt < MaxRetries /\ Len(wire) = attempt + 1
          /\ RequestReplaySafe(call.method, EnsureIdempotencyKey(call))
      BY <1>3, EngineAssumption DEF Stops, TypeInv
    <2>2. rec' \in {r, OnMoved(r)} /\ sink' = sink
      BY <1>3 DEF Conclude
    <2>3. ~ rec'.finished
      BY <1>1, <2>2, HooksKeepFinished, ZenonT(30)
    <2>4. ~ Ended'
      BY <1>3, <2>3 DEF Ended
    <2>5. ReportInv'
      <3>1. AtMostOneEvent(sink) /\ sink = << >>
        BY <1>1 DEF ReportInv
      <3>2. Len(wire') # 0
        BY <1>1, <2>1
      <3> QED BY <2>2, <2>3, <3>1, <3>2 DEF ReportInv
    <2>6. index' = index \/ (index' = index + 1 /\ CanAdvance)
      BY <1>3 DEF Conclude
    <2>7. CASE index' = index
      <3>1. UNCHANGED << call, index >> /\ Len(sink') = Len(sink) /\ (Ended' <=> Ended)
        BY <1>1, <2>2, <2>4, <2>7
      <3> QED BY <2>5, <3>1, AsStutter
    <2>8. CASE index' = index + 1 /\ CanAdvance
      <3>1. Len(wire) \in 1 .. MaxRetries
        BY <2>1, EngineAssumption
      <3>2. UNCHANGED << call, sink >> /\ Len(wire') = Len(wire)
        BY <2>2
      <3> QED BY <1>1, <2>1, <2>4, <2>5, <2>8, <3>1, <3>2, AsMove
    <2> QED BY <2>6, <2>7, <2>8
  <1> QED BY <1>2, <1>3 DEF Conclude

(* Every step of the engine is a step of LogicalCall.                      *)
LEMMA EngineRefines ==
    ASSUME TypeInv, WalkInv, ReportInv, EngineNext, TypeInv', WalkInv'
    PROVE  ReportInv' /\ AbstractStep
  <1>0. /\ Deadline \in FailureType
        /\ \A f \in TransportFailures : f \in FailureType
    BY EngineAssumption DEF Deadline, FailureType, ErrorClasses
  <1>t. /\ attempt \in Nat /\ Len(wire) \in Nat /\ attempt <= MaxRetries
        /\ RecorderOK(rec) /\ wire \in Seq(SendType) /\ index \in Nat
    BY EngineAssumption, CandidatesOK DEF TypeInv, WalkInv
  <1>n. ASSUME phase \in Trying
        PROVE  Len(wire) = attempt + 1 /\ Len(wire) # 0
    BY <1>n, <1>t DEF WalkInv, SendsCounted
  <1>a. ASSUME NEW a, Note(a)
        PROVE  Len(wire') = Len(wire)
    BY <1>a, <1>t DEF Note
  <1>1. CASE Start
    <2>1. ~ Ended /\ sink = << >> /\ Len(wire) = 0
      BY <1>1, <1>t DEF Start, Ended, ReportInv, WalkInv, SendsCounted
    <2>2. UNCHANGED << call, index, sink, wire >>
      BY <1>1 DEF Start
    <2>3. CASE Routable(call)
      <3>1. phase' = "ready" /\ rec' = RequestRecorder(call)
        BY <1>1, <2>3 DEF Start
      <3>2. ~ rec'.finished /\ rec'.attempts = << >>
        BY <3>1 DEF RequestRecorder, NewRecorder
      <3>3. ~ Ended'
        BY <3>1, <3>2 DEF Ended
      <3>4. AbstractStep
        BY <2>1, <2>2, <3>3, AsStutter
      <3> QED BY <2>1, <2>2, <3>2, <3>4 DEF ReportInv
    <2>4. CASE ~ Routable(call)
      <3>1. phase' = "done" /\ rec' = rec
        BY <1>1, <2>4 DEF Start
      <3>2. Len(sink') = 0 /\ Len(wire') = Len(wire) /\ Ended'
        BY <2>1, <2>2, <3>1 DEF Ended
      <3>3. AbstractStep
        BY <2>1, <2>2, <3>2, AsEnd
      <3> QED BY <2>1, <2>2, <3>1, <3>3 DEF ReportInv, Ended
    <2> QED BY <2>3, <2>4
  <1>2. CASE BeginSend
    <2> DEFINE r == BeginAttempt(rec, index)
    <2>1. /\ phase = "ready" /\ ~ Ended /\ Len(wire) = attempt
          /\ UNCHANGED << call, attempt, key >>
      BY <1>2 DEF BeginSend, Ended, ReportInv, WalkInv, SendsCounted
    <2>2. r.finished = rec.finished /\ r.attempts = rec.attempts /\ RecorderOK(r)
      BY <1>t, HooksKeepFinished, BeginAttemptOK, ZenonT(30)
    <2>3. CASE ~ Assembles(call)
      <3>1. Stops(FromTransport("config"))
        BY ZenonT(30) DEF Stops, FromTransport, RetryableTransport
      <3>2. Conclude(r, FromTransport("config")) /\ wire' = wire
        BY <1>2, <2>3 DEF BeginSend
      <3>3. Len(wire) = 0 => r.attempts = << >>
        BY <2>2 DEF ReportInv
      <3> HIDE DEF r
      <3> QED BY <2>1, <2>2, <3>1, <3>2, <3>3, ConcludeRefines
    <2>4. CASE Assembles(call)
      <3>1. /\ rec' = r /\ phase' = "waiting" /\ UNCHANGED << index, sink >>
            /\ Len(wire') = Len(wire) + 1
        BY <1>2, <2>4, <1>t DEF BeginSend
      <3>2. ~ rec'.finished
        BY <2>1, <2>2, <3>1 DEF Ended
      <3>3. ~ Ended'
        BY <3>1, <3>2 DEF Ended
      <3>4. Len(wire) > 0 =>
               RequestReplaySafe(call.method, EnsureIdempotencyKey(call))
        BY <2>1 DEF WalkInv, SendsCounted, ReplaySafe, TypeInv
      <3>5. AbstractStep
        BY <1>t, <2>1, <3>1, <3>3, <3>4, AsSend
      <3> QED BY <1>t, <2>1, <3>1, <3>2, <3>5 DEF ReportInv
    <2> QED BY <2>3, <2>4
  <1>3. CASE Wake
    <2>1. /\ phase = "sleeping" /\ phase' = "ready"
          /\ UNCHANGED << call, index, rec, sink, wire >>
      BY <1>3 DEF Wake
    <2>2. AbstractStep
      BY <2>1, AsStutter DEF Ended
    <2> QED BY <2>1, <2>2 DEF ReportInv, Ended
  <1>4. ASSUME NEW f \in FailureType, SendFails(f)
        PROVE  ReportInv' /\ AbstractStep
    <2> DEFINE r == OnTransportError(rec, f, FALSE, FALSE)
    <2>0. r.finished = rec.finished
      BY <1>t, FailureKeepsFinished, ZenonT(30)
    <2>1. RecorderOK(r) /\ r.finished = rec.finished
      BY <1>t, <2>0, OnTransportErrorOK, ZenonT(30)
    <2>2. /\ phase = "waiting" /\ Conclude(r, FromTransport(IntoError(f)))
          /\ UNCHANGED << call, attempt, key >> /\ Note(Failed(f))
      BY <1>4, ZenonT(30) DEF SendFails
    <2>3. /\ Len(wire) = attempt + 1 /\ Len(wire) # 0 /\ Len(wire') = Len(wire)
      BY <1>n, <1>a, <2>2 DEF Trying
    <2> HIDE DEF r
    <2> QED BY <2>1, <2>2, <2>3, ConcludeRefines
  <1>5. CASE DrainCompletes
    <2>1. /\ phase = "draining" /\ Conclude(rec, FromHttp(response))
          /\ UNCHANGED << call, attempt, key, wire >>
      BY <1>5 DEF DrainCompletes
    <2>2. Len(wire) = attempt + 1 /\ Len(wire) # 0
      BY <1>n, <2>1 DEF Trying
    <2> QED BY <1>t, <2>1, <2>2, ConcludeRefines
  <1>6. ASSUME NEW f \in FailureType, DrainFails(f)
        PROVE  ReportInv' /\ AbstractStep
    <2> DEFINE r == OnTransportError(rec, f, TRUE, FALSE)
    <2>0. r.finished = rec.finished
      BY <1>t, FailureKeepsFinished, ZenonT(30)
    <2>1. RecorderOK(r) /\ r.finished = rec.finished
      BY <1>t, <2>0, OnTransportErrorOK, ZenonT(30)
    <2>2. /\ phase = "draining" /\ UNCHANGED << call, attempt, key >>
          /\ Note(BodyFailed(Last(wire).answer, f))
      BY <1>6 DEF DrainFails
    <2>3. /\ Len(wire) = attempt + 1 /\ Len(wire) # 0 /\ Len(wire') = Len(wire)
      BY <1>n, <1>a, <2>2 DEF Trying
    <2>4. \/ Conclude(r, FromHttp(response))
          \/ EndWith(r, FALSE, IntoError(f)) /\ UNCHANGED << index, delay >>
      BY <1>6, ZenonT(30) DEF DrainFails
    <2> HIDE DEF r
    <2>5. CASE Conclude(r, FromHttp(response))
      BY <2>1, <2>2, <2>3, <2>5, ConcludeRefines
    <2>6. CASE EndWith(r, FALSE, IntoError(f)) /\ UNCHANGED << index, delay >>
      <3>1. rec' = Finished(r) /\ sink' = sink \o Reports(r, FALSE) /\ phase' = "done"
        BY <2>6 DEF EndWith
      <3> QED BY <2>1, <2>2, <2>3, <2>6, <3>1, FinishRefines, ZenonT(30)
    <2> QED BY <2>4, <2>5, <2>6, ZenonT(30)
  <1>7. ASSUME NEW f \in FailureType, BodyFails(f)
        PROVE  ReportInv' /\ AbstractStep
    <2> DEFINE r == OnTransportError(rec, f, TRUE, FALSE)
    <2>0. r.finished = rec.finished
      BY <1>t, FailureKeepsFinished, ZenonT(30)
    <2>1. RecorderOK(r) /\ r.finished = rec.finished
      BY <1>t, <2>0, OnTransportErrorOK, ZenonT(30)
    <2>2. /\ phase = "open" /\ UNCHANGED << call, index >>
          /\ Note(BodyFailed(Last(wire).answer, f))
          /\ rec' = Finished(r) /\ sink' = sink \o Reports(r, FALSE)
          /\ phase' = "done"
      BY <1>7 DEF BodyFails, Buffered, EndWith
    <2>3. Len(wire) # 0 /\ Len(wire') = Len(wire)
      BY <1>n, <1>a, <2>2 DEF Trying
    <2> HIDE DEF r
    <2> QED BY <2>1, <2>2, <2>3, FinishRefines, ZenonT(30)
  <1>8. CASE ReceiveHeaders
    <2>1. PICK resp \in Responses :
             rec' = OnResponse(rec, resp) /\ Note(Answered(resp))
      BY <1>8 DEF ReceiveHeaders
    <2>2. /\ phase = "waiting" /\ phase' \in {"open", "draining"}
          /\ UNCHANGED << call, index, sink >>
      BY <1>8 DEF ReceiveHeaders
    <2>3. Len(wire') = Len(wire) /\ Len(wire) # 0
      BY <1>n, <1>a, <2>1, <2>2 DEF Trying
    <2>a. ~ rec.finished
      BY <2>2 DEF ReportInv
    <2>b. OnResponse(rec, resp).finished = rec.finished
      BY <1>t, HooksKeepFinished, Zenon
    <2>4. ~ rec.finished /\ ~ rec'.finished
      BY <2>1, <2>a, <2>b
    <2>5. ~ Ended /\ ~ Ended'
      BY <2>2, <2>4 DEF Ended
    <2>6. AbstractStep
      BY <2>2, <2>3, <2>5, AsStutter
    <2> QED BY <2>2, <2>3, <2>4, <2>5, <2>6 DEF ReportInv
  <1>9. CASE BodyCompletes
    <2>1. /\ phase = "open" /\ UNCHANGED << call, index, wire >>
          /\ rec' = Finished(rec) /\ sink' = sink \o Reports(rec, FALSE)
          /\ phase' = "done"
      BY <1>9 DEF BodyCompletes, Buffered, EndWith
    <2>2. Len(wire) # 0
      BY <1>n, <2>1 DEF Trying
    <2> QED BY <1>t, <2>1, <2>2, FinishRefines, ZenonT(30)
  <1>10. CASE CallerDrops
    <2> DEFINE r == Dropped(rec)
    <2>1. RecorderOK(r) /\ r.finished = rec.finished
      BY <1>t, FinishedOK, HooksKeepFinished, ZenonT(30) DEF Dropped
    <2>2. /\ phase \in Trying \cup {"sleeping"} /\ UNCHANGED << call, index, wire >>
          /\ rec' = Finished(r) /\ sink' = sink \o Reports(r, FALSE)
          /\ phase' = "done"
      BY <1>10 DEF CallerDrops, Suspended, Buffered, EndWith, Trying
    <2>3. Len(wire) # 0 /\ phase # "done"
      BY <1>t, <2>2 DEF WalkInv, SendsCounted, Trying
    <2> HIDE DEF r
    <2> QED BY <2>1, <2>2, <2>3, FinishRefines, ZenonT(30)
  <1> QED
    BY <1>0, <1>1, <1>2, <1>3, <1>4, <1>5, <1>6, <1>7, <1>8, <1>9, <1>10
    DEF EngineNext, Local, Environment, DeadlineElapses, TransportBreaks

-----------------------------------------------------------------------------
(* Streams.  CallInv is inductive for the engine and the stream together.  *)
CallInv == TypeInv /\ WalkInv /\ ReportInv /\ StageInv

(* What every step of a stream leaves alone.                               *)
StreamQuiet ==
    /\ HandedOver
    /\ UNCHANGED << call, attempt, index, key, response, delay, wire, result >>
    /\ phase' \in {"open", "done"}

(* Such a step keeps the engine's invariants.                              *)
LEMMA QuietStep ==
    ASSUME TypeInv, WalkInv, StreamQuiet, RecorderOK(rec')
    PROVE  TypeInv' /\ WalkInv'
  <1>1. phase' \in {phase, "done"} /\ phase = "open"
    BY DEF StreamQuiet, HandedOver
  <1>2. WalkInv'
    BY <1>1, QuietWalk DEF StreamQuiet
  <1> QED BY <1>1, <1>2 DEF StreamQuiet, TypeInv

(* A stream step that finishes the record.                                 *)
LEMMA StreamFinishes ==
    ASSUME TypeInv, WalkInv, ReportInv, StreamQuiet, NEW r, RecorderOK(r),
           r.finished = rec.finished, rec' = Finished(r),
           sink' = sink \o Reports(r, FALSE)
    PROVE  TypeInv' /\ WalkInv' /\ ReportInv' /\ AbstractStep
  <1>1. RecorderOK(rec')
    BY FinishedOK
  <1>2. phase = "open" /\ Len(wire) # 0
    BY EngineAssumption
    DEF StreamQuiet, HandedOver, TypeInv, WalkInv, SendsCounted, Trying
  <1>3. UNCHANGED << call, index >> /\ Len(wire') = Len(wire)
    BY DEF StreamQuiet
  <1>4. ReportInv' /\ AbstractStep
    BY <1>2, <1>3, FinishRefines, ZenonT(30) DEF StreamQuiet
  <1> QED BY <1>1, <1>4, QuietStep

(* A stream step that leaves the record open.                              *)
LEMMA StreamContinues ==
    ASSUME TypeInv, WalkInv, ReportInv, StreamQuiet, phase' = phase,
           RecorderOK(rec'), rec'.finished = rec.finished, sink' = sink
    PROVE  TypeInv' /\ WalkInv' /\ ReportInv' /\ AbstractStep
  <1>1. phase = "open" /\ Len(wire) # 0
    BY EngineAssumption
    DEF StreamQuiet, HandedOver, TypeInv, WalkInv, SendsCounted, Trying
  <1>2. UNCHANGED << call, index >> /\ Len(wire') = Len(wire) /\ (Ended' <=> Ended)
    BY DEF StreamQuiet, Ended
  <1>3. AbstractStep
    BY <1>2, AsStutter
  <1>4. ReportInv'
    BY <1>1, <1>2 DEF ReportInv
  <1> QED BY <1>3, <1>4, QuietStep

(* Every step of a stream keeps the invariant and is a step of LogicalCall *)
(* that sends nothing.                                                     *)
LEMMA StreamRefines ==
    ASSUME CallInv, StreamSteps
    PROVE  CallInv' /\ AbstractStep
  <1> USE DEF CallInv
  <1>0. RecorderOK(rec)
    BY DEF TypeInv
  <1>b. body_started \in BOOLEAN
    BY DEF StageInv
  <1>h. ASSUME stage \in {"reading", "terminal", "ended"},
               UNCHANGED << call, phase, attempt, index, key, response, delay,
                            wire, result >>,
               body_started' \in BOOLEAN
        PROVE  StreamQuiet /\ phase' = phase /\ StageInv'
    BY <1>h DEF StageInv, StreamQuiet, HandedOver
  <1>c. ASSUME stage \in {"reading", "terminal", "ended"},
               UNCHANGED << call, phase, attempt, index, key, response, delay,
                            wire, result >>, body_started' \in BOOLEAN,
               NEW r, RecorderOK(r), r.finished = rec.finished, OnComplete(r)
        PROVE  CallInv' /\ AbstractStep
    <2>1. StreamQuiet /\ StageInv'
      BY <1>c, <1>h
    <2> QED BY <1>c, <2>1, StreamFinishes, ZenonT(30) DEF OnComplete
  <1>e. RecorderOK(AfterEvent) /\ AfterEvent.finished = rec.finished
    BY <1>0, FirstEventOK, HooksKeepFinished, ZenonT(30) DEF AfterEvent
  <1>1. CASE Open
    <2>1. StreamQuiet /\ phase' = phase /\ rec' = rec /\ sink' = sink /\ StageInv'
      BY <1>1 DEF Open, StreamQuiet, HandedOver, StageInv, engineVars
    <2> QED BY <1>0, <2>1, StreamContinues
  <1>2. ASSUME NEW frame \in FrameKinds, ReceiveFrame(frame)
        PROVE  CallInv' /\ AbstractStep
    <2>1. /\ stage \in {"reading", "terminal", "ended"}
          /\ UNCHANGED << call, phase, attempt, index, key, response, delay,
                          wire, result >>
          /\ body_started' \in BOOLEAN
      BY <1>2 DEF ReceiveFrame
    <2>2. OnComplete(AfterEvent) \/ (rec' = AfterEvent /\ sink' = sink)
      BY <1>2 DEF ReceiveFrame
    <2>3. CASE OnComplete(AfterEvent)
      BY <1>c, <1>e, <2>1, <2>3
    <2>4. CASE rec' = AfterEvent /\ sink' = sink
      <3>1. StreamQuiet /\ phase' = phase /\ StageInv'
        BY <1>h, <2>1
      <3> QED BY <1>e, <2>4, <3>1, StreamContinues
    <2> QED BY <2>2, <2>3, <2>4
  <1>3. CASE PollPastTerminal
    BY <1>0, <1>3, <1>c, <1>b DEF PollPastTerminal
  <1>4. CASE EndOfBody
    BY <1>0, <1>4, <1>c, <1>b DEF EndOfBody
  <1>5. CASE FramingError
    BY <1>0, <1>5, <1>c, <1>b DEF FramingError
  <1>6. ASSUME NEW f \in FailureType, WireFails(f)
        PROVE  CallInv' /\ AbstractStep
    <2> DEFINE r == OnTransportError(rec, f, TRUE, body_started)
    <2>1. r.finished = rec.finished
      BY <1>0, FailureKeepsFinished, <1>b, ZenonT(60)
    <2>2. RecorderOK(r)
      BY <1>0, <1>b, OnTransportErrorOK, ZenonT(30)
    <2>3. OnComplete(r)
      BY <1>6, ZenonT(30) DEF WireFails, OnWireFailure
    <2> HIDE DEF r
    <2> QED BY <1>6, <1>b, <1>c, <2>1, <2>2, <2>3 DEF WireFails
  <1>7. CASE Release
    <2> DEFINE r == Dropped(rec)
    <2>1. RecorderOK(r) /\ r.finished = rec.finished
      BY <1>0, FinishedOK, HooksKeepFinished, ZenonT(30) DEF Dropped
    <2>2. /\ stage \in {"reading", "terminal", "ended"}
          /\ rec' = Finished(r) /\ sink' = sink \o Reports(r, FALSE)
          /\ stage' = "released" /\ phase' = "done"
          /\ UNCHANGED << call, attempt, index, key, response, delay, wire, result >>
      BY <1>7 DEF Release
    <2>3. StreamQuiet /\ StageInv'
      BY <1>7, <1>b, <2>2 DEF StreamQuiet, StageInv, Release
    <2> HIDE DEF r
    <2> QED BY <2>1, <2>2, <2>3, StreamFinishes, ZenonT(30)
  <1>8. /\ Deadline \in FailureType
        /\ \A f \in TransportFailures : f \in FailureType
    BY EngineAssumption DEF Deadline, FailureType, ErrorClasses
  <1> QED
    BY <1>1, <1>2, <1>3, <1>4, <1>5, <1>6, <1>7, <1>8
    DEF StreamSteps, IdleTimeout, WireBreaks

(* Every step of a call keeps the invariant and is a step of LogicalCall.  *)
LEMMA CallStep ==
    CallInv /\ [StreamNext]_vars => CallInv' /\ AbstractStep
  <1> SUFFICES ASSUME CallInv, [StreamNext]_vars
               PROVE  CallInv' /\ AbstractStep
    OBVIOUS
  <1>1. CASE EngineNext /\ UNCHANGED streamVars
    <2>1. TypeInv' /\ WalkInv'
      BY <1>1, TypeStep, WalkStep DEF CallInv, Next
    <2>2. ReportInv' /\ AbstractStep
      BY <1>1, <2>1, EngineRefines DEF CallInv
    <2>3. ~ HandedOver
      BY <1>1, ZenonT(30)
      DEF EngineNext, Local, Environment, DeadlineElapses, TransportBreaks, Start,
          BeginSend, Wake, ReceiveHeaders, DrainCompletes, BodyCompletes,
          CallerDrops, SendFails, DrainFails, BodyFails, Suspended, Buffered,
          HandedOver
    <2>4. StageInv'
      BY <1>1, <2>3 DEF CallInv, StageInv, streamVars
    <2> QED BY <2>1, <2>2, <2>4 DEF CallInv
  <1>2. CASE StreamSteps
    BY <1>2, StreamRefines
  <1>3. CASE UNCHANGED vars
    <2>1. UNCHANGED engineVars /\ UNCHANGED streamVars
      BY <1>3 DEF vars
    <2>2. TypeInv' /\ WalkInv'
      BY <2>1, TypeStep, WalkStep DEF CallInv
    <2>3. ReportInv' /\ StageInv'
      BY <2>1 DEF CallInv, ReportInv, StageInv, HandedOver, Ended, engineVars,
                  streamVars
    <2>4. AbstractStep
      BY <2>1, AsStutter DEF engineVars, Ended
    <2> QED BY <2>2, <2>3, <2>4 DEF CallInv
  <1> QED BY <1>1, <1>2, <1>3 DEF StreamNext, StreamTerminated

(* The initial states map to initial states of LogicalCall.                *)
LEMMA InitCallInv ==
    StreamInit => CallInv /\ StreamAbstract!Init
  <1> SUFFICES ASSUME StreamInit PROVE CallInv /\ StreamAbstract!Init
    OBVIOUS
  <1>1. TypeInv /\ WalkInv
    BY InitTypeInv, InitWalkInv DEF StreamInit
  <1>2. /\ phase = "idle" /\ wire = << >> /\ sink = << >> /\ index = 0
        /\ rec = NewRecorder(FALSE, FALSE, FALSE)
    BY DEF StreamInit, Init
  <1>3. ~ rec.finished /\ rec.attempts = << >>
    BY <1>2 DEF NewRecorder
  <1>4. ~ Ended /\ Len(wire) = 0 /\ Len(sink) = 0
    BY <1>2, <1>3, ZenonT(30) DEF Ended
  <1>5. ReportInv
    BY <1>2, <1>3, <1>4, ZenonT(30) DEF ReportInv, AtMostOneEvent
  <1>6. StageInv
    BY ZenonT(30) DEF StreamInit, StageInv
  <1>7. (phase = "done" \/ rec.finished) = FALSE
    BY <1>4 DEF Ended
  <1>8. CandidateCount(call) \in Nat \ {0}
    BY CandidatesOK
  <1>9. RequestReplaySafe(call.method, EnsureIdempotencyKey(call)) \in BOOLEAN
    BY DEF RequestReplaySafe
  <1>10. StreamAbstract!Init
    BY <1>2, <1>4, <1>7, <1>8, <1>9, ZenonT(30) DEF StreamAbstract!Init
  <1> QED BY <1>1, <1>5, <1>6, <1>10 DEF CallInv

(* A call, streaming or not, is one logical call whatever the servers, the *)
(* network, the timers and the caller do: its resends, its moves, its end  *)
(* and its report are those LogicalCall allows (execute, open_stream,      *)
(* RequestRecorder's finish and Drop).                                     *)
THEOREM CallsImplementLogicalCall == StreamSpec => StreamImplementsLogicalCall
  <1>1. CallInv /\ [StreamNext]_vars =>
           CallInv' /\ [StreamAbstract!Next]_(StreamAbstract!vars)
    BY CallStep DEF AbstractStep
  <1> QED BY <1>1, InitCallInv, PTL
          DEF StreamSpec, StreamImplementsLogicalCall, StreamAbstract!Spec

(* The engine's walk properties outlive the hand-over: no step of a stream *)
(* sends, resends or moves anything.  See ResendsAreSafe,                  *)
(* MovesOnlyOnGatewayFailure and PinnedCallsNeverMove.                     *)
THEOREM StreamsKeepTheWalk ==
    StreamSpec => []( /\ ResendsAreSafe
                      /\ MovesOnlyOnGatewayFailure
                      /\ PinnedCallsNeverMove )
  <1>1. CallInv => /\ ResendsAreSafe
                   /\ MovesOnlyOnGatewayFailure
                   /\ PinnedCallsNeverMove
    BY WalkIsSafe, WalkMoves, WalkStays DEF CallInv
  <1> QED BY <1>1, InitCallInv, CallStep, PTL DEF StreamSpec
=============================================================================
