---------------------------- MODULE ReportProofs ----------------------------
(***************************************************************************)
(* The report of a call agrees with what went over the wire and with what  *)
(* its caller got, for every client, every set of answers, failures and    *)
(* frames, any retry ceiling and any number of aliases.                    *)
(***************************************************************************)
EXTENDS CallProofs

(* Where the call went after its send i: to its next send, or to where the *)
(* cursor x stands.                                                        *)
Onward(w, x, i) == IF i < Len(w) THEN w[i + 1].host ELSE x

(* The records of r are the first m sends of the history w.                *)
Accounts(r, w, x, m) ==
    /\ Len(r.attempts) = m
    /\ \A i \in 1 .. m :
          /\ r.attempts[i].host = w[i].host
          /\ r.attempts[i].http_status = w[i].answer.status
          /\ r.attempts[i].moved <=> Onward(w, x, i) # w[i].host
    /\ r.failover_used <=> \E i \in 1 .. m : r.attempts[i].moved

(* The attempt in flight of r is the last send of w.                       *)
Points(r, w) ==
    Len(w) > 0 => /\ r.current_index = Len(w) - 1
                  /\ r.current_host = w[Len(w)].host

(* A recorder accounts for the history; one out of scope stays empty.      *)
Held(r, w, x, m) ==
    /\ r.on => Points(r, w) /\ Accounts(r, w, x, m)
    /\ ~ r.on => r.attempts = << >> /\ ~ InFlight(r)

(* While a send waits for its headers it has no record yet.                *)
Recorded == IF phase = "waiting" THEN Len(wire) - 1 ELSE Len(wire)

AccountInv ==
    /\ Held(rec, wire, index, Recorded)
    /\ phase = "waiting" => wire[Len(wire)].answer = NoAnswer

ScopeInv ==
    /\ phase = "idle" => ~ rec.on /\ ~ rec.finished
    /\ ~ Routable(call) => phase \in {"idle", "done"} /\ ~ rec.on
    /\ phase # "idle" /\ Routable(call) =>
         /\ rec.on <=> call.telemetry /\ call.plane = "inference" /\ call.tracked
         /\ rec.recordable <=> call.method \in {"GET", "POST"}
    /\ ~ Assembles(call) \/ ~ Routable(call) => wire = << >>
    /\ phase = "done" => rec.finished \/ wire = << >>

(* finish may call a call exhausted only at the retry ceiling.             *)
Justified(x) ==
    x => /\ attempt = MaxRetries /\ attempt > 0
         /\ result \in {"api", "timeout", "transport"}

SinkInv ==
    /\ \/ sink = << >>
       \/ \E x \in BOOLEAN : Justified(x) /\ sink = << RequestEvent(rec, x) >>
    /\ sink # << >> <=> rec.finished /\ rec.attempts # << >> /\ rec.recordable

(* The last record names what the caller got.                              *)
Tells(a, res) ==
    /\ res = "ok" <=> a.outcome = "ok" /\ a.http_status \in 200 .. 299
    /\ res = "dropped" <=> a.outcome = "aborted"
    /\ a.outcome = "timeout" => res = "timeout" \/ a.http_status # None

OutcomeInv ==
    /\ result # "pending" => phase = "done"
    /\ phase = "draining" => response.status \notin 200 .. 299
    /\ rec.on /\ wire # << >> =>
         LET last == Last(rec.attempts)
         IN  /\ phase = "draining" => last.outcome \in {"ok", "http_error"}
             /\ phase = "open" /\ ~ rec.finished =>
                   last.outcome = "ok" /\ last.http_status \in 200 .. 299
             /\ result # "pending" => Tells(last, result)

ReportedInv == AccountInv /\ ScopeInv /\ SinkInv /\ OutcomeInv

(* The engine finishes a record only as it ends the call.                  *)
Live == phase # "done" => ~ rec.finished

-----------------------------------------------------------------------------
(* What the hooks of the recorder leave alone.                             *)
Kept(q, r) == /\ q.on = r.on /\ q.recordable = r.recordable
              /\ q.ttft = r.ttft /\ q.finished = r.finished

Stays(q, r) == /\ Kept(q, r)
               /\ q.failover_used = r.failover_used
               /\ q.current_index = r.current_index
               /\ q.current_host = r.current_host

(* q differs from r in its record n, its last, at most.                    *)
Rewrites(q, r, n) ==
    /\ Stays(q, r)
    /\ Len(q.attempts) = n
    /\ \A i \in 1 .. n - 1 : q.attempts[i] = r.attempts[i]

(* store_attempt writes the record of the attempt in flight and nothing    *)
(* else.                                                                   *)
LEMMA Stored ==
    ASSUME NEW r, RecorderOK(r), InFlight(r), NEW record \in AttemptType,
           Len(r.attempts) \in {r.current_index, r.current_index + 1}
    PROVE  LET s == StoreAttempt(r, record)
           IN  /\ Rewrites(s, r, r.current_index + 1)
               /\ s.attempts[r.current_index + 1] = record
  <1> DEFINE s == StoreAttempt(r, record)
             n == r.current_index + 1
  <1>1. /\ r.attempts \in Seq(AttemptType) /\ r.current_index \in Nat
        /\ Len(r.attempts) \in Nat
    BY DEF RecorderOK, RecorderType, InFlight, None
  <1>2. Stays(s, r)
    BY DEF StoreAttempt, RecorderOK, RecorderType, Stays, Kept
  <1>3. CASE Opened(r)
    <2> DEFINE t == [r.attempts EXCEPT ![r.current_index + 1] = record]
    <2>1. s.attempts = t
      BY <1>3 DEF StoreAttempt, RecorderOK, RecorderType
    <2>2. Len(t) = n /\ t[n] = record /\ \A i \in 1 .. n - 1 : t[i] = r.attempts[i]
      BY <1>1, <1>3 DEF Opened
    <2> HIDE DEF t
    <2> QED BY <1>2, <2>1, <2>2 DEF Rewrites
  <1>4. CASE ~ Opened(r)
    <2> DEFINE t == Append(r.attempts, record)
    <2>1. s.attempts = t
      BY <1>4 DEF StoreAttempt, RecorderOK, RecorderType
    <2>2. Len(r.attempts) = r.current_index
      BY <1>1, <1>4 DEF Opened
    <2>3. Len(t) = n /\ t[n] = record /\ \A i \in 1 .. n - 1 : t[i] = r.attempts[i]
      BY <1>1, <2>2
    <2> HIDE DEF t
    <2> QED BY <1>2, <2>1, <2>3 DEF Rewrites
  <1> QED BY <1>3, <1>4

(* q is r with the response resp as its record n.                          *)
RecordsAnswer(q, r, resp, n) ==
    /\ Rewrites(q, r, n)
    /\ q.attempts[n].host = r.current_host
    /\ q.attempts[n].moved = FALSE
    /\ q.attempts[n].http_status = resp.status
    /\ q.attempts[n].outcome = IF resp.status < 400 THEN "ok" ELSE "http_error"

(* on_response records the answer in the attempt in flight.                *)
LEMMA ResponseStored ==
    ASSUME NEW r, RecorderOK(r), InFlight(r), NEW resp \in Responses,
           Len(r.attempts) \in {r.current_index, r.current_index + 1}
    PROVE  RecordsAnswer(OnResponse(r, resp), r, resp, r.current_index + 1)
  <1> DEFINE outcome == IF resp.status < 400 THEN "ok" ELSE "http_error"
             record == [host |-> r.current_host,
                        outcome |-> outcome,
                        http_status |-> resp.status,
                        error_class |-> "none",
                        should_retry |-> resp.verdict,
                        moved |-> FALSE,
                        phase |-> "none"]
  <1>1. resp \in ResponseType
    BY EngineAssumption
  <1>2. record \in AttemptType
    BY <1>1 DEF AttemptType, RecorderOK, Outcomes, Phases, ResponseType
  <1>3. OnResponse(r, resp) = StoreAttempt(r, record)
    BY DEF OnResponse
  <1>4. /\ record.host = r.current_host /\ record.outcome = outcome
        /\ record.http_status = resp.status /\ record.moved = FALSE
    OBVIOUS
  <1> HIDE DEF record
  <1> QED BY <1>2, <1>3, <1>4, Stored DEF RecordsAnswer

(* q is r with the failure f as its record n: the status is that of the    *)
(* response that opened the attempt.                                       *)
RecordsFailure(q, r, f, opened, started, n) ==
    /\ Rewrites(q, r, n)
    /\ q.attempts[n].host = r.current_host
    /\ q.attempts[n].moved = FALSE
    /\ q.attempts[n].http_status =
          IF Opened(r) /\ opened THEN r.attempts[n].http_status ELSE None
    /\ q.attempts[n].outcome = FailureOutcome(f.timed_out, started)
    /\ f.timed_out /\ started => q.attempts[n].phase = "idle"
    /\ f.timed_out /\ started /\ f.class = "read_timeout"
          => q.attempts[n].error_class = "stream_stalled"

(* on_transport_error records the failure in the attempt in flight.        *)
LEMMA FailureStored ==
    ASSUME NEW r, RecorderOK(r), InFlight(r), NEW f \in FailureType,
           NEW opened \in BOOLEAN, NEW started \in BOOLEAN,
           Len(r.attempts) \in {r.current_index, r.current_index + 1}
    PROVE  RecordsFailure(OnTransportError(r, f, opened, started), r, f, opened,
                          started, r.current_index + 1)
  <1> DEFINE idle == f.timed_out /\ started
             old == r.attempts[r.current_index + 1]
             status == IF Opened(r) /\ opened THEN old.http_status ELSE None
             verdict == IF Opened(r) THEN old.should_retry ELSE "absent"
             class == IF idle /\ f.class = "read_timeout"
                      THEN "stream_stalled" ELSE f.class
             moment == IF idle THEN "idle" ELSE PhaseForClass(f.class)
             outcome == FailureOutcome(f.timed_out, started)
             record == [host |-> r.current_host, outcome |-> outcome,
                        http_status |-> status, error_class |-> class,
                        should_retry |-> verdict, moved |-> FALSE,
                        phase |-> moment]
  <1>1. Opened(r) => old \in AttemptType
    BY DEF Opened, RecorderOK, RecorderType, InFlight, None
  <1>2. status \in Nat \cup {None} /\ verdict \in Verdicts
    BY <1>1 DEF AttemptType, Verdicts
  <1>3. moment \in Phases /\ outcome \in Outcomes
    BY DEF PhaseForClass, Phases, FailureOutcome, Outcomes
  <1>4. /\ r.current_host \in Nat
        /\ class \in ErrorClasses \cup {"none", "stream_stalled"}
    BY DEF RecorderOK, FailureType
  <1>5. OnTransportError(r, f, opened, started) = StoreAttempt(r, record)
    BY DEF OnTransportError
  <1>6. /\ idle => moment = "idle"
        /\ idle /\ f.class = "read_timeout" => class = "stream_stalled"
    OBVIOUS
  <1> HIDE DEF status, verdict, class, moment, outcome
  <1>7. record \in AttemptType
    BY <1>2, <1>3, <1>4, ZenonT(30) DEF AttemptType
  <1>8. /\ record.host = r.current_host /\ record.outcome = outcome
        /\ record.http_status = status /\ record.error_class = class
        /\ record.moved = FALSE /\ record.phase = moment
    BY ZenonT(30)
  <1> HIDE DEF record
  <1>9. /\ Rewrites(StoreAttempt(r, record), r, r.current_index + 1)
        /\ StoreAttempt(r, record).attempts[r.current_index + 1] = record
    BY <1>7, Stored
  <1> QED BY <1>5, <1>6, <1>8, <1>9, ZenonT(30)
          DEF RecordsFailure, status, outcome, old, idle

(* on_aborted relabels the record in flight, or adds one without a status. *)
LEMMA AbortStored ==
    ASSUME NEW r, RecorderOK(r), InFlight(r),
           Len(r.attempts) \in {r.current_index, r.current_index + 1}
    PROVE  LET q == OnAborted(r)
               old == r.attempts[r.current_index + 1]
               last == q.attempts[r.current_index + 1]
           IN  /\ Rewrites(q, r, r.current_index + 1)
               /\ last.outcome = "aborted"
               /\ Opened(r) => /\ last.host = old.host /\ last.moved = old.moved
                               /\ last.http_status = old.http_status
               /\ ~ Opened(r) => /\ last.host = r.current_host
                                 /\ last.moved = FALSE
                                 /\ last.http_status = None
  <1> DEFINE n == r.current_index + 1
  <1>1. /\ r.attempts \in Seq(AttemptType) /\ r.current_index \in Nat
        /\ Len(r.attempts) \in Nat
    BY DEF RecorderOK, RecorderType, InFlight, None
  <1>2. CASE Opened(r)
    <2> DEFINE mark == [r.attempts[n] EXCEPT !.outcome = "aborted"]
    <2>1. n \in 1 .. Len(r.attempts) /\ n = Len(r.attempts)
      BY <1>1, <1>2 DEF Opened
    <2>2. r.attempts[n] \in AttemptType
      BY <1>1, <2>1
    <2>3. /\ mark \in AttemptType /\ mark.outcome = "aborted"
          /\ mark.host = r.attempts[n].host /\ mark.moved = r.attempts[n].moved
          /\ mark.http_status = r.attempts[n].http_status
      BY <2>2, ZenonT(30) DEF AttemptType, Outcomes
    <2>4. OnAborted(r) = StoreAttempt(r, mark)
      BY <1>2 DEF OnAborted, StoreAttempt
    <2> HIDE DEF mark
    <2> QED BY <1>2, <2>3, <2>4, Stored
  <1>3. CASE ~ Opened(r)
    <2> DEFINE record == [host |-> r.current_host, outcome |-> "aborted",
                          http_status |-> None, error_class |-> "none",
                          should_retry |-> "absent", moved |-> FALSE,
                          phase |-> "none"]
    <2>1. record \in AttemptType
      BY DEF AttemptType, Outcomes, Phases, Verdicts, RecorderOK
    <2>2. OnAborted(r) = StoreAttempt(r, record)
      BY <1>3 DEF OnAborted
    <2>3. /\ record.host = r.current_host /\ record.outcome = "aborted"
          /\ record.http_status = None /\ record.moved = FALSE
      OBVIOUS
    <2> HIDE DEF record
    <2> QED BY <1>3, <2>1, <2>2, <2>3, Stored
  <1> QED BY <1>2, <1>3, ZenonT(30)

-----------------------------------------------------------------------------
(* Writing the record of the last send keeps the account of the others.    *)
LEMMA RewriteAccounts ==
    ASSUME NEW r, NEW q, NEW w, NEW v, NEW x, NEW n \in Nat, n > 0,
           NEW m \in {n - 1, n}, Len(w) = n, Len(v) = n,
           \A i \in 1 .. n : v[i].host = w[i].host,
           \A i \in 1 .. n - 1 : v[i].answer = w[i].answer,
           Accounts(r, w, x, m), Rewrites(q, r, n),
           q.attempts[n].host = v[n].host,
           q.attempts[n].http_status = v[n].answer.status,
           q.attempts[n].moved <=> x # v[n].host,
           m = n => (q.attempts[n].moved <=> r.attempts[n].moved),
           m = n - 1 => ~ q.attempts[n].moved
    PROVE  Accounts(q, v, x, n)
  <1>1. /\ Len(q.attempts) = n /\ q.failover_used = r.failover_used
        /\ \A i \in 1 .. n - 1 : q.attempts[i] = r.attempts[i]
    BY DEF Rewrites, Stays
  <1>2. ASSUME NEW i \in 1 .. n - 1
        PROVE  /\ q.attempts[i].host = v[i].host
               /\ q.attempts[i].http_status = v[i].answer.status
               /\ q.attempts[i].moved <=> Onward(v, x, i) # v[i].host
    <2>1. i \in 1 .. m /\ i < n /\ i \in 1 .. n /\ i + 1 \in 1 .. n
      OBVIOUS
    <2>2. Onward(v, x, i) = Onward(w, x, i)
      BY <2>1 DEF Onward
    <2> QED BY <1>1, <2>1, <2>2, ZenonT(30) DEF Accounts
  <1>3. q.attempts[n].moved <=> Onward(v, x, n) # v[n].host
    BY DEF Onward
  <1>4. \A i \in 1 .. n : i \in 1 .. n - 1 \/ i = n
    OBVIOUS
  <1>5. (\E i \in 1 .. n : q.attempts[i].moved) <=> \E i \in 1 .. m : r.attempts[i].moved
    <2>1. CASE m = n
      BY <1>1, <1>4, <2>1
    <2>2. CASE m = n - 1
      BY <1>1, <1>4, <2>2
    <2> QED BY <2>1, <2>2
  <1>6. \A i \in 1 .. n :
           /\ q.attempts[i].host = v[i].host
           /\ q.attempts[i].http_status = v[i].answer.status
           /\ q.attempts[i].moved <=> Onward(v, x, i) # v[i].host
    BY <1>2, <1>3, <1>4
  <1> QED BY <1>1, <1>5, <1>6 DEF Accounts

(* on_moved marks the last record as the cursor leaves its host.           *)
LEMMA MoveAccounts ==
    ASSUME NEW r, RecorderOK(r), NEW w, NEW x, NEW y, Len(r.attempts) > 0,
           Len(w) = Len(r.attempts),
           Accounts(r, w, x, Len(w)), y # w[Len(w)].host
    PROVE  /\ Accounts(OnMoved(r), w, y, Len(w))
           /\ Last(OnMoved(r).attempts).outcome = Last(r.attempts).outcome
  <1> DEFINE n == Len(r.attempts)
             last == [r.attempts[n] EXCEPT !.moved = TRUE]
             t == [r.attempts EXCEPT ![n] = last]
             q == OnMoved(r)
  <1>1. /\ r.attempts \in Seq(AttemptType) /\ n \in Nat /\ n > 0
        /\ r.attempts # << >>
    BY DEF RecorderOK, RecorderType
  <1>2. r.attempts[n] \in AttemptType /\ n \in 1 .. n
    BY <1>1
  <1>3. /\ last.host = r.attempts[n].host /\ last.moved = TRUE
        /\ last.http_status = r.attempts[n].http_status
        /\ last.outcome = r.attempts[n].outcome
    BY <1>2, ZenonT(30) DEF AttemptType
  <1>4. q.attempts = t /\ q.failover_used = TRUE
    BY <1>1 DEF OnMoved, RecorderOK, RecorderType
  <1> HIDE DEF last, q
  <1>5. Len(t) = n /\ t[n] = last /\ \A i \in 1 .. n - 1 : t[i] = r.attempts[i]
    BY <1>1, <1>2
  <1> HIDE DEF t
  <1>6. ASSUME NEW i \in 1 .. n
        PROVE  /\ t[i].host = w[i].host
               /\ t[i].http_status = w[i].answer.status
               /\ t[i].moved <=> Onward(w, y, i) # w[i].host
    <2>1. CASE i = n
      BY <1>3, <1>5, <2>1 DEF Accounts, Onward
    <2>2. CASE i \in 1 .. n - 1
      <3>1. Onward(w, y, i) = Onward(w, x, i)
        BY <1>1, <2>2 DEF Onward
      <3> QED BY <1>5, <2>2, <3>1 DEF Accounts
    <2> QED BY <1>1, <2>1, <2>2
  <1>7. \E i \in 1 .. n : t[i].moved
    BY <1>2, <1>3, <1>5
  <1>8. Accounts(q, w, y, n)
    BY <1>4, <1>5, <1>6, <1>7, ZenonT(30) DEF Accounts
  <1>9. Last(q.attempts).outcome = Last(r.attempts).outcome
    BY <1>3, <1>4, <1>5 DEF Last
  <1> QED BY <1>8, <1>9 DEF q

(* begin_attempt points at the send that goes out.                         *)
LEMMA SendAccounts ==
    ASSUME NEW r, RecorderOK(r), NEW w \in Seq(SendType), NEW x \in Nat,
           NEW s, s.host = x, Held(r, w, x, Len(w))
    PROVE  Held(BeginAttempt(r, x), Append(w, s), x, Len(w))
  <1> DEFINE q == BeginAttempt(r, x)
             v == Append(w, s)
             n == Len(w)
  <1>1. /\ q.on = r.on /\ q.attempts = r.attempts
        /\ q.failover_used = r.failover_used
        /\ r.on => q.current_index = Len(r.attempts) /\ q.current_host = x
        /\ ~ r.on => q = r
    BY DEF BeginAttempt, RecorderOK, RecorderType
  <1>2. n \in Nat /\ Len(v) = n + 1 /\ v[n + 1] = s /\ \A i \in 1 .. n : v[i] = w[i]
    OBVIOUS
  <1> HIDE DEF q, v
  <1>3. ASSUME r.on
        PROVE  Points(q, v) /\ Accounts(q, v, x, n)
    <2>1. Accounts(r, w, x, n)
      BY <1>3 DEF Held
    <2>2. \A i \in 1 .. n : Onward(v, x, i) = Onward(w, x, i)
      <3> SUFFICES ASSUME NEW i \in 1 .. n PROVE Onward(v, x, i) = Onward(w, x, i)
        OBVIOUS
      <3>1. CASE i < n
        BY <1>2, <3>1 DEF Onward
      <3>2. CASE i = n
        BY <1>2, <3>2 DEF Onward
      <3> QED BY <1>2, <3>1, <3>2
    <2>3. Accounts(q, v, x, n)
      BY <1>1, <1>2, <2>1, <2>2 DEF Accounts
    <2>4. Points(q, v)
      BY <1>1, <1>2, <1>3, <2>1 DEF Points, Accounts
    <2> QED BY <2>3, <2>4
  <1> QED BY <1>1, <1>3 DEF Held, q, v

-----------------------------------------------------------------------------
(* finish sets the flag it sets and leaves the rest alone.                 *)
LEMMA FinishLeaves ==
    ASSUME NEW r, RecorderOK(r)
    PROVE  LET q == Finished(r)
           IN  /\ q.finished = TRUE /\ q.attempts = r.attempts
               /\ q.on = r.on /\ q.recordable = r.recordable
               /\ q.ttft = r.ttft /\ q.failover_used = r.failover_used
               /\ q.current_index = r.current_index
               /\ q.current_host = r.current_host
  BY DEF Finished, RecorderOK, RecorderType

(* A second finish changes nothing.                                        *)
LEMMA FinishTwice ==
    ASSUME NEW r, RecorderOK(r), r.finished
    PROVE  Finished(r) = r
  <1>1. r.finished = TRUE
    BY DEF RecorderOK, RecorderType
  <1> QED BY <1>1, ZenonT(30) DEF Finished, RecorderOK, RecorderType

(* The report does not read the flag.                                      *)
LEMMA FinishedReport ==
    ASSUME NEW r, RecorderOK(r), NEW x
    PROVE  RequestEvent(Finished(r), x) = RequestEvent(r, x)
  <1> DEFINE q == Finished(r)
  <1>1. q.attempts = r.attempts /\ q.ttft = r.ttft /\ q.failover_used = r.failover_used
    BY FinishLeaves, ZenonT(30)
  <1> HIDE DEF q
  <1>2. RequestEvent(q, x) = RequestEvent(r, x)
    BY <1>1, ZenonT(30) DEF RequestEvent, FinalOutcome, RequestRow
  <1> QED BY <1>2 DEF q

(* Nor does the account of the wire.                                       *)
LEMMA FinishedHeld ==
    ASSUME NEW r, RecorderOK(r), NEW w, NEW i, NEW m, Held(r, w, i, m)
    PROVE  Held(Finished(r), w, i, m)
  <1> DEFINE q == Finished(r)
  <1>1. /\ q.attempts = r.attempts /\ q.on = r.on
        /\ q.failover_used = r.failover_used
        /\ q.current_index = r.current_index /\ q.current_host = r.current_host
    BY FinishLeaves, ZenonT(30)
  <1> HIDE DEF q
  <1>2. Held(q, w, i, m)
    BY <1>1, ZenonT(30) DEF Held, Points, Accounts, InFlight
  <1> QED BY <1>2 DEF q

(* finish, the first time, hands the sink the report of the recorder it    *)
(* leaves behind.                                                          *)
LEMMA FinishSinks ==
    ASSUME NEW r, RecorderOK(r), ~ r.finished, NEW x \in BOOLEAN,
           sink = << >>, rec' = Finished(r), sink' = sink \o Reports(r, x),
           Justified(x)'
    PROVE  SinkInv'
  <1>0. RequestEvent(Finished(r), x) = RequestEvent(r, x)
    BY FinishedReport
  <1>1. /\ rec'.finished = TRUE /\ rec'.attempts = r.attempts
        /\ rec'.recordable = r.recordable
        /\ RequestEvent(rec', x) = RequestEvent(r, x)
    <2>1. /\ Finished(r).finished = TRUE /\ Finished(r).attempts = r.attempts
          /\ Finished(r).recordable = r.recordable
      BY FinishLeaves, ZenonT(30)
    <2> QED BY <1>0, <2>1
  <1>2. \A e : << >> \o << e >> = << e >> /\ << e >> # << >>
    OBVIOUS
  <1>3. << >> \o << >> = << >>
    OBVIOUS
  <1>4. CASE r.attempts = << >> \/ ~ r.recordable
    <2>1. sink' = << >>
      BY <1>3, <1>4, ZenonT(30) DEF Reports
    <2> QED BY <1>1, <1>4, <2>1, ZenonT(30) DEF SinkInv
  <1>5. CASE ~ (r.attempts = << >> \/ ~ r.recordable)
    <2>1. sink' = << RequestEvent(rec', x) >> /\ sink' # << >>
      BY <1>1, <1>2, <1>5, ZenonT(30) DEF Reports
    <2>2. rec'.finished /\ rec'.attempts # << >> /\ rec'.recordable
      BY <1>1, <1>5
    <2>3. Justified(x)' /\ x \in BOOLEAN
      OBVIOUS
    <2> QED BY <2>1, <2>2, <2>3, ZenonT(30) DEF SinkInv
  <1> QED BY <1>4, <1>5

(* The end of the call by the engine, whatever ended it.                   *)
LEMMA EndReports ==
    ASSUME ScopeInv, phase \notin {"idle", "done"}, sink = << >>,
           NEW r, RecorderOK(r), Kept(r, rec), ~ rec.finished,
           Held(r, wire', index, Len(wire')), UNCHANGED << call, attempt, index >>,
           wire' # << >> => wire # << >>,
           NEW x \in BOOLEAN, NEW res \in Results, res # "pending",
           EndWith(r, x, res),
           x => /\ attempt = MaxRetries /\ attempt > 0
                /\ res \in {"api", "timeout", "transport"},
           r.on /\ wire' # << >> => Tells(Last(r.attempts), res)
    PROVE  ReportedInv' /\ Live' /\ rec'.ttft = rec.ttft
  <1>1. /\ phase' = "done" /\ result' = res /\ rec' = Finished(r)
        /\ sink' = sink \o Reports(r, x)
    BY DEF EndWith
  <1>2. ~ r.finished /\ r.on = rec.on /\ r.recordable = rec.recordable
        /\ r.ttft = rec.ttft
    BY DEF Kept
  <1>3. /\ rec'.finished = TRUE /\ rec'.attempts = r.attempts
        /\ rec'.on = r.on /\ rec'.recordable = r.recordable
        /\ rec'.ttft = r.ttft
        /\ Held(rec', wire', index, Len(wire'))
    BY <1>1, FinishLeaves, FinishedHeld, ZenonT(30)
  <1>4. SinkInv'
    <2>1. Justified(x)'
      BY <1>1, ZenonT(30) DEF Justified
    <2> QED BY <1>1, <1>2, <2>1, FinishSinks
  <1>5. AccountInv'
    BY <1>1, <1>3 DEF AccountInv, Recorded
  <1>7. ScopeInv'
    BY <1>1, <1>2, <1>3 DEF ScopeInv, Assembles, Routable
  <1>8. OutcomeInv'
    BY <1>1, <1>3 DEF OutcomeInv
  <1> QED BY <1>1, <1>2, <1>3, <1>4, <1>5, <1>7, <1>8 DEF ReportedInv, Live

(* The end of an attempt: the call ends and is reported, or backs off with *)
(* its account intact, moved or not.                                       *)
LEMMA ConcludeReports ==
    ASSUME TypeInv, ScopeInv, OutcomeInv, phase \notin {"idle", "open", "done"},
           sink = << >>, attempt > 0 => ReplaySafe,
           NEW r, RecorderOK(r), Kept(r, rec), ~ rec.finished,
           NEW d \in DispositionType, Conclude(r, d),
           UNCHANGED << call, attempt, key >>,
           wire' \in Seq(SendType), Len(wire') > 0 \/ Stops(d),
           wire' # << >> => wire # << >> /\ wire'[Len(wire')].host = index,
           Held(r, wire', index, Len(wire')),
           d.retry => d.error # "config",
           SinkInv,
           r.on /\ wire' # << >> => Tells(Last(r.attempts), d.error)
    PROVE  ReportedInv' /\ Live' /\ rec'.ttft = rec.ttft
  <1>0. /\ attempt \in Nat /\ attempt <= MaxRetries /\ index \in Nat
        /\ d.error \in {"api", "timeout", "transport", "config"}
        /\ d.retry \in BOOLEAN
    BY EngineAssumption, CandidatesOK DEF TypeInv, DispositionType
  <1>1. CASE Stops(d) /\ EndWith(r, attempt > 0 /\ d.retry, d.error)
             /\ UNCHANGED << index, delay >>
    <2> DEFINE x == attempt > 0 /\ d.retry
    <2>1. x \in BOOLEAN /\ d.error \in Results /\ d.error # "pending"
      BY <1>0 DEF Results
    <2>2. x => /\ attempt = MaxRetries /\ attempt > 0
               /\ d.error \in {"api", "timeout", "transport"}
      BY <1>0, <1>1, EngineAssumption DEF Stops, ReplaySafe
    <2>3. EndWith(r, x, d.error) /\ UNCHANGED << call, attempt, index >>
      BY <1>1
    <2> HIDE DEF x
    <2> QED BY <2>1, <2>2, <2>3, EndReports
  <1>2. CASE ~ Stops(d) /\ phase' = "sleeping"
    <2> DEFINE n == Len(wire')
    <2>1. /\ n \in Nat /\ n > 0 /\ wire' # << >> /\ wire'[n].host = index
      BY <1>2
    <2>2. /\ sink' = sink /\ result' = result /\ result = "pending"
      BY <1>2 DEF Conclude, OutcomeInv
    <2>3. r.on = rec.on /\ r.recordable = rec.recordable /\ r.ttft = rec.ttft
          /\ ~ r.finished
      BY DEF Kept
    <2>4. /\ rec'.on = r.on /\ rec'.recordable = r.recordable
          /\ rec'.ttft = r.ttft /\ ~ rec'.finished
          /\ rec'.current_index = r.current_index
          /\ rec'.current_host = r.current_host
      <3>1. rec' \in {r, OnMoved(r)}
        BY <1>2 DEF Conclude
      <3> QED BY <2>3, <3>1, ZenonT(30) DEF OnMoved, RecorderOK, RecorderType
    <2>5. Held(rec', wire', index', n)
      <3>1. CASE index' = index /\ rec' = r
        BY <3>1
      <3>2. CASE index' = index + 1 /\ rec' = OnMoved(r)
        <4>1. CASE ~ r.on
          <5>1. r.attempts = << >> /\ ~ InFlight(r)
            BY <4>1 DEF Held
          <5>2. rec' = r
            BY <3>2, <5>1 DEF OnMoved
          <5> QED BY <4>1, <5>1, <5>2 DEF Held
        <4>2. CASE r.on
          <5>1. Points(r, wire') /\ Accounts(r, wire', index, n)
            BY <4>2 DEF Held
          <5>2. Len(r.attempts) = n /\ index' # wire'[n].host
            BY <1>0, <2>1, <3>2, <5>1 DEF Accounts
          <5>3. Accounts(rec', wire', index', n)
            BY <2>1, <3>2, <5>1, <5>2, MoveAccounts
          <5>4. Points(rec', wire')
            BY <2>4, <5>1 DEF Points
          <5> QED BY <2>4, <4>2, <5>3, <5>4 DEF Held
        <4> QED BY <4>1, <4>2
      <3> QED BY <1>2, <3>1, <3>2 DEF Conclude
    <2>6. AccountInv'
      BY <1>2, <2>5 DEF AccountInv, Recorded
    <2>7. ScopeInv'
      BY <1>2, <2>1, <2>3, <2>4 DEF ScopeInv, Assembles, Routable
    <2>8. SinkInv'
      BY <2>2, <2>4 DEF SinkInv
    <2>9. OutcomeInv'
      BY <1>2, <2>2 DEF OutcomeInv
    <2> QED BY <1>2, <2>3, <2>4, <2>6, <2>7, <2>8, <2>9 DEF ReportedInv, Live
  <1> QED BY <1>1, <1>2 DEF Conclude

-----------------------------------------------------------------------------
(* A call that waits for something has sent, and its recorder, if it has   *)
(* one, points at that send.                                               *)
LEMMA InTry ==
    ASSUME TypeInv, WalkInv, AccountInv, phase \in Trying \cup {"sleeping"}
    PROVE  LET n == Len(wire)
           IN  /\ wire \in Seq(SendType) /\ n \in Nat /\ n > 0 /\ wire # << >>
               /\ index \in Nat /\ RecorderOK(rec)
               /\ phase # "sleeping" => wire[n].host = index
               /\ phase = "waiting" => wire[n].answer.status = None
               /\ ~ rec.on => rec.attempts = << >> /\ ~ InFlight(rec)
               /\ rec.on => /\ InFlight(rec) /\ rec.current_index = n - 1
                            /\ rec.current_host = wire[n].host
                            /\ Accounts(rec, wire, index, Recorded)
                            /\ Len(rec.attempts) = Recorded
                            /\ Opened(rec) <=> phase # "waiting"
  <1> DEFINE n == Len(wire)
  <1>1. /\ wire \in Seq(SendType) /\ n \in Nat /\ attempt \in Nat
        /\ index \in Nat /\ RecorderOK(rec)
    BY EngineAssumption, CandidatesOK DEF TypeInv, WalkInv
  <1>2. n = attempt + 1
    BY DEF WalkInv, SendsCounted
  <1>3. n > 0 /\ wire # << >>
    BY <1>1, <1>2
  <1>4. phase # "sleeping" => wire[n].host = index
    BY <1>3 DEF WalkInv, LastSend
  <1>5. /\ ~ rec.on => rec.attempts = << >> /\ ~ InFlight(rec)
        /\ phase = "waiting" => wire[n].answer.status = None
    BY DEF AccountInv, Held, NoAnswer
  <1>6. rec.on => /\ rec.current_index = n - 1 /\ rec.current_host = wire[n].host
                  /\ Accounts(rec, wire, index, Recorded)
    BY <1>3 DEF AccountInv, Held, Points
  <1>7. rec.on => Len(rec.attempts) = Recorded
    BY <1>6 DEF Accounts
  <1>8. rec.on => InFlight(rec) /\ (Opened(rec) <=> phase # "waiting")
    BY <1>1, <1>3, <1>6, <1>7 DEF InFlight, Opened, Recorded, None
  <1> QED BY <1>1, <1>3, <1>4, <1>5, <1>6, <1>7, <1>8

(* A failure of the attempt in flight is recorded as the history v has it. *)
LEMMA FailureAccounts ==
    ASSUME TypeInv, WalkInv, AccountInv, phase \in Trying,
           NEW f \in FailureType, NEW started \in BOOLEAN,
           NEW opened \in BOOLEAN, opened <=> phase # "waiting",
           NEW v \in Seq(SendType), Len(v) = Len(wire),
           \A i \in 1 .. Len(wire) : v[i].host = wire[i].host,
           \A i \in 1 .. Len(wire) - 1 : v[i].answer = wire[i].answer,
           v[Len(wire)].answer.status =
              IF opened THEN wire[Len(wire)].answer.status ELSE None
    PROVE  LET q == OnTransportError(rec, f, opened, started)
               last == Last(q.attempts)
           IN  /\ RecorderOK(q) /\ Kept(q, rec) /\ Held(q, v, index, Len(v))
               /\ q.on =>
                    /\ last.outcome = FailureOutcome(f.timed_out, started)
                    /\ last.http_status = v[Len(v)].answer.status
                    /\ f.timed_out /\ started => last.phase = "idle"
                    /\ f.timed_out /\ started /\ f.class = "read_timeout"
                         => last.error_class = "stream_stalled"
  <1> DEFINE n == Len(wire)
             q == OnTransportError(rec, f, opened, started)
             last == Last(q.attempts)
  <1>1. /\ wire \in Seq(SendType) /\ n \in Nat /\ n > 0
        /\ index \in Nat /\ RecorderOK(rec) /\ wire[n].host = index
        /\ ~ rec.on => rec.attempts = << >> /\ ~ InFlight(rec)
        /\ rec.on => /\ InFlight(rec) /\ rec.current_index = n - 1
                     /\ rec.current_host = wire[n].host
                     /\ Accounts(rec, wire, index, Recorded)
                     /\ Len(rec.attempts) = Recorded
                     /\ Opened(rec) <=> phase # "waiting"
    BY InTry DEF Trying
  <1>2. RecorderOK(q)
    BY <1>1, OnTransportErrorOK, ZenonT(30)
  <1>3. CASE ~ rec.on
    <2>1. q = rec
      BY <1>1, <1>3 DEF OnTransportError
    <2> QED BY <1>1, <1>2, <1>3, <2>1 DEF Kept, Held
  <1>4. CASE rec.on
    <2> DEFINE old == rec.attempts[n]
               new == q.attempts[n]
    <2>1. /\ rec.current_index + 1 = n
          /\ Len(rec.attempts) \in {rec.current_index, rec.current_index + 1}
      <3>1. n \in Nat /\ rec.current_index = n - 1 /\ Len(rec.attempts) = Recorded
        BY <1>1, <1>4
      <3>2. Recorded \in {n - 1, n}
        BY DEF Recorded
      <3> HIDE DEF n
      <3> QED BY <3>1, <3>2
    <2>2. /\ Rewrites(q, rec, n)
          /\ new.host = rec.current_host /\ new.moved = FALSE
          /\ new.http_status = IF Opened(rec) /\ opened
                               THEN old.http_status ELSE None
          /\ new.outcome = FailureOutcome(f.timed_out, started)
          /\ f.timed_out /\ started => new.phase = "idle"
          /\ f.timed_out /\ started /\ f.class = "read_timeout"
                => new.error_class = "stream_stalled"
      <3>1. RecordsFailure(q, rec, f, opened, started, rec.current_index + 1)
        BY <1>1, <1>4, <2>1, FailureStored, ZenonT(30)
      <3>2. RecordsFailure(q, rec, f, opened, started, n)
        BY <2>1, <3>1, ZenonT(30)
      <3> HIDE DEF q
      <3> QED BY <3>2, ZenonT(30) DEF RecordsFailure
    <2> HIDE DEF q
    <2>3. q.on = rec.on /\ Kept(q, rec) /\ Len(q.attempts) = n
          /\ q.current_index = rec.current_index
          /\ q.current_host = rec.current_host
      BY <2>2 DEF Rewrites, Stays, Kept
    <2>4. Recorded \in {n - 1, n} /\ (Recorded = n <=> phase # "waiting")
      BY <1>1 DEF Recorded
    <2>5. Recorded = n => ~ old.moved /\ old.http_status = wire[n].answer.status
      BY <1>1, <1>4 DEF Accounts, Onward
    <2>6. new.http_status = v[n].answer.status
      BY <1>1, <1>4, <2>2, <2>4, <2>5
    <2>7. v[n].host = wire[n].host
      BY <1>1
    <2>8. Accounts(q, v, index, n)
      <3>1. /\ new.host = v[n].host /\ (new.moved <=> index # v[n].host)
            /\ Recorded = n => (new.moved <=> old.moved)
            /\ Recorded = n - 1 => ~ new.moved
        BY <1>1, <1>4, <2>2, <2>5, <2>7
      <3>2. Accounts(rec, wire, index, Recorded)
        BY <1>1, <1>4
      <3> HIDE DEF new, old
      <3>3. q.attempts[n] = new /\ rec.attempts[n] = old
        BY DEF new, old
      <3> QED BY <1>1, <2>2, <2>4, <2>6, <3>1, <3>2, <3>3, RewriteAccounts, ZenonT(30)
    <2>9. Held(q, v, index, Len(v))
      <3>1. Points(q, v)
        BY <1>1, <1>4, <2>3, <2>7 DEF Points
      <3> QED BY <1>4, <2>3, <2>8, <3>1 DEF Held
    <2>10. last = new
      BY <2>3 DEF Last
    <2> QED BY <1>2, <2>2, <2>3, <2>6, <2>9, <2>10, ZenonT(30) DEF q
  <1> QED BY <1>3, <1>4

(* Dropping an unfinished call leaves the account as it was, but for the   *)
(* outcome of the attempt in flight.                                       *)
LEMMA AbortAccounts ==
    ASSUME TypeInv, WalkInv, AccountInv, phase \in Trying \cup {"sleeping"},
           ~ rec.finished
    PROVE  LET q == Dropped(rec)
           IN  /\ RecorderOK(q) /\ Kept(q, rec)
               /\ Held(q, wire, index, Len(wire))
               /\ q.on => Last(q.attempts).outcome = "aborted"
  <1> DEFINE n == Len(wire)
             q == OnAborted(rec)
  <1>1. /\ wire \in Seq(SendType) /\ n \in Nat /\ n > 0
        /\ RecorderOK(rec) /\ (phase # "sleeping" => wire[n].host = index)
        /\ phase = "waiting" => wire[n].answer.status = None
        /\ ~ rec.on => rec.attempts = << >> /\ ~ InFlight(rec)
        /\ rec.on => /\ InFlight(rec) /\ rec.current_index = n - 1
                     /\ rec.current_host = wire[n].host
                     /\ Accounts(rec, wire, index, Recorded)
                     /\ Len(rec.attempts) = Recorded
                     /\ Opened(rec) <=> phase # "waiting"
    BY InTry
  <1>2. RecorderOK(q) /\ Dropped(rec) = q
    BY <1>1, OnAbortedOK DEF Dropped
  <1>3. CASE ~ rec.on
    <2>1. q = rec
      BY <1>1, <1>3 DEF OnAborted
    <2> QED BY <1>1, <1>2, <1>3, <2>1 DEF Kept, Held
  <1>4. CASE rec.on
    <2> DEFINE old == rec.attempts[n]
               new == q.attempts[n]
    <2>1. /\ rec.current_index + 1 = n
          /\ Len(rec.attempts) \in {rec.current_index, rec.current_index + 1}
      BY <1>1, <1>4 DEF Recorded
    <2>2. /\ Rewrites(q, rec, n) /\ new.outcome = "aborted"
          /\ Opened(rec) => /\ new.host = old.host /\ new.moved = old.moved
                            /\ new.http_status = old.http_status
          /\ ~ Opened(rec) => /\ new.host = rec.current_host /\ new.moved = FALSE
                              /\ new.http_status = None
      BY <1>1, <1>4, <2>1, AbortStored, ZenonT(30)
    <2> HIDE DEF q
    <2>3. q.on = rec.on /\ Kept(q, rec) /\ Len(q.attempts) = n
          /\ q.current_index = rec.current_index
          /\ q.current_host = rec.current_host
      BY <2>2 DEF Rewrites, Stays, Kept
    <2>4. Recorded \in {n - 1, n} /\ (Recorded = n <=> phase # "waiting")
      BY <1>1 DEF Recorded
    <2>5. Recorded = n => /\ old.host = wire[n].host
                          /\ old.http_status = wire[n].answer.status
                          /\ old.moved <=> index # wire[n].host
      BY <1>1, <1>4 DEF Accounts, Onward
    <2>6. /\ new.host = wire[n].host
          /\ new.http_status = wire[n].answer.status
          /\ new.moved <=> index # wire[n].host
          /\ Recorded = n => (new.moved <=> old.moved)
          /\ Recorded = n - 1 => ~ new.moved
      <3>1. CASE phase = "waiting"
        <4>1. Recorded = n - 1 /\ Recorded # n /\ ~ Opened(rec)
          BY <1>1, <1>4, <3>1 DEF Recorded
        <4> QED BY <1>1, <1>4, <2>2, <3>1, <4>1
      <3>2. CASE phase # "waiting"
        <4>1. Recorded = n /\ Recorded # n - 1 /\ Opened(rec)
          BY <1>1, <1>4, <3>2 DEF Recorded
        <4> QED BY <2>2, <2>5, <4>1
      <3> QED BY <3>1, <3>2
    <2>7. Accounts(q, wire, index, n)
      <3>1. Accounts(rec, wire, index, Recorded)
        BY <1>1, <1>4
      <3> HIDE DEF new, old
      <3>2. q.attempts[n] = new /\ rec.attempts[n] = old
        BY DEF new, old
      <3> QED BY <1>1, <2>2, <2>4, <2>6, <3>1, <3>2, RewriteAccounts
    <2>8. Points(q, wire)
      BY <1>1, <1>4, <2>3 DEF Points
    <2>9. Held(q, wire, index, Len(wire))
      BY <1>4, <2>3, <2>7, <2>8 DEF Held
    <2>10. Last(q.attempts) = new
      BY <2>3 DEF Last
    <2> QED BY <1>2, <2>2, <2>3, <2>9, <2>10
  <1> QED BY <1>3, <1>4

-----------------------------------------------------------------------------
(* The engine's steps keep the account, the scope, the report and the      *)
(* outcome.  First the start of the call.                                  *)
LEMMA StartReports ==
    ASSUME TypeInv, WalkInv, ReportInv, ReportedInv, Live, Start
    PROVE  ReportedInv' /\ Live' /\ (~ rec.ttft => ~ rec'.ttft)
  <1>1. /\ phase = "idle" /\ wire = << >> /\ Len(wire) = 0 /\ sink = << >>
        /\ result = "pending" /\ ~ rec.on /\ ~ rec.finished
    <2>1. phase = "idle" /\ ~ rec.finished /\ ~ rec.on /\ result = "pending"
      BY DEF Start, ReportedInv, ScopeInv, OutcomeInv
    <2>2. Len(wire) = 0 /\ wire \in Seq(SendType)
      BY <2>1 DEF WalkInv, SendsCounted
    <2>3. sink = << >>
      BY <2>1 DEF ReportInv, Ended
    <2> QED BY <2>1, <2>2, <2>3
  <1>2. UNCHANGED << call, attempt, index, response, sink, wire >>
    BY DEF Start
  <1>3. CASE Routable(call)
    <2>1. /\ phase' = "ready" /\ rec' = RequestRecorder(call) /\ result' = result
      BY <1>3 DEF Start
    <2>2. /\ rec'.attempts = << >> /\ rec'.current_index = None
          /\ rec'.failover_used = FALSE /\ rec'.finished = FALSE
          /\ rec'.ttft = FALSE
          /\ rec'.on <=> call.telemetry /\ call.plane = "inference" /\ call.tracked
          /\ rec'.recordable <=> call.method \in {"GET", "POST"}
      BY <2>1, ZenonT(30) DEF RequestRecorder, NewRecorder
    <2>3. Held(rec', wire', index', 0)
      BY <1>1, <1>2, <2>2 DEF Held, Points, Accounts, InFlight
    <2>4. AccountInv'
      BY <1>1, <1>2, <2>1, <2>3 DEF AccountInv, Recorded
    <2>5. ScopeInv'
      BY <1>1, <1>2, <1>3, <2>1, <2>2 DEF ScopeInv, Assembles, Routable
    <2>6. SinkInv' /\ OutcomeInv'
      BY <1>1, <1>2, <2>1, <2>2 DEF SinkInv, OutcomeInv
    <2> QED BY <2>1, <2>2, <2>4, <2>5, <2>6 DEF ReportedInv, Live
  <1>4. CASE ~ Routable(call)
    <2>1. /\ phase' = "done" /\ rec' = rec
      BY <1>4 DEF Start
    <2>2. AccountInv'
      BY <1>1, <1>2, <2>1 DEF ReportedInv, AccountInv, Recorded
    <2>3. ScopeInv' /\ SinkInv' /\ OutcomeInv'
      BY <1>1, <1>2, <1>4, <2>1
      DEF ReportedInv, ScopeInv, SinkInv, OutcomeInv, Assembles, Routable
    <2> QED BY <1>1, <2>1, <2>2, <2>3 DEF ReportedInv, Live
  <1> QED BY <1>3, <1>4

(* begin_attempt and the send: the account lags one send behind, or the    *)
(* call fails before it and reports nothing.                               *)
LEMMA SendReports ==
    ASSUME TypeInv, WalkInv, ReportInv, ReportedInv, Live, BeginSend
    PROVE  ReportedInv' /\ Live' /\ rec'.ttft = rec.ttft
  <1> DEFINE r == BeginAttempt(rec, index)
             n == Len(wire)
  <1>1. /\ phase = "ready" /\ UNCHANGED << call, attempt, key, response >>
        /\ ~ rec.finished /\ sink = << >> /\ result = "pending"
        /\ Routable(call)
    BY DEF BeginSend, Live, ReportInv, Ended, ReportedInv, OutcomeInv, ScopeInv
  <1>2. /\ wire \in Seq(SendType) /\ n \in Nat /\ index \in Nat /\ RecorderOK(rec)
        /\ (attempt > 0 => ReplaySafe)
        /\ Held(rec, wire, index, n)
    BY <1>1, CandidatesOK
    DEF TypeInv, WalkInv, SendsCounted, ReportedInv, AccountInv, Recorded
  <1>3. RecorderOK(r)
    BY <1>2, BeginAttemptOK
  <1>4. Kept(r, rec) /\ r.attempts = rec.attempts
    BY <1>2 DEF BeginAttempt, RecorderOK, RecorderType, Kept
  <1>5. CASE ~ Assembles(call)
    <2>1. wire = << >> /\ n = 0 /\ wire' = wire
      BY <1>1, <1>5 DEF ReportedInv, ScopeInv, BeginSend
    <2>2. Conclude(r, FromTransport("config"))
      BY <1>5 DEF BeginSend
    <2>3. Stops(FromTransport("config")) /\ ~ FromTransport("config").retry
      BY ZenonT(30) DEF Stops, FromTransport, RetryableTransport
    <2>4. FromTransport("config") \in DispositionType
      BY DispositionOK
    <2>5. Held(r, wire', index, Len(wire'))
      <3>1. r.on = rec.on /\ r.failover_used = rec.failover_used
            /\ (~ rec.on => r = rec)
        BY <1>2 DEF BeginAttempt, RecorderOK, RecorderType
      <3> HIDE DEF r
      <3> QED BY <1>2, <1>4, <2>1, <3>1, SMTT(30) DEF Held, Points, Accounts
    <2> HIDE DEF r
    <2> QED BY <1>1, <1>2, <1>3, <1>4, <2>1, <2>2, <2>3, <2>4, <2>5,
               ConcludeReports DEF ReportedInv
  <1>6. CASE Assembles(call)
    <2> DEFINE s == [host |-> index, key |-> WireKey, header |-> HeaderValue(r),
                     answer |-> NoAnswer]
    <2>1. /\ phase' = "waiting" /\ rec' = r /\ wire' = Append(wire, s)
          /\ UNCHANGED << index, sink, result >>
      BY <1>6 DEF BeginSend
    <2>2. s.host = index /\ s.answer = NoAnswer
      OBVIOUS
    <2> HIDE DEF r, s
    <2>3. Held(rec', wire', index', n)
      BY <1>2, <2>1, <2>2, SendAccounts DEF r
    <2>4. Len(wire') = n + 1 /\ wire'[n + 1] = s /\ wire' # << >>
      BY <1>2, <2>1
    <2>5. AccountInv'
      <3>1. Recorded' = n
        BY <1>2, <2>1, <2>4 DEF Recorded
      <3> QED BY <2>1, <2>2, <2>3, <2>4, <3>1 DEF AccountInv
    <2>6. ScopeInv'
      BY <1>1, <1>4, <1>6, <2>1 DEF ReportedInv, ScopeInv, Assembles, Routable, Kept
    <2>7. SinkInv' /\ OutcomeInv'
      BY <1>1, <1>4, <2>1 DEF SinkInv, OutcomeInv, Kept
    <2> QED BY <1>1, <1>4, <2>1, <2>5, <2>6, <2>7 DEF ReportedInv, Live, Kept
  <1> QED BY <1>5, <1>6

(* The headers arrive and are recorded as they are.                        *)
LEMMA HeadersReport ==
    ASSUME TypeInv, WalkInv, ReportInv, ReportedInv, Live, ReceiveHeaders
    PROVE  ReportedInv' /\ Live' /\ rec'.ttft = rec.ttft
  <1> DEFINE n == Len(wire)
  <1>1. PICK resp \in Responses :
           /\ rec' = OnResponse(rec, resp)
           /\ Note(Answered(resp))
           /\ \/ resp.status \in 200 .. 299 /\ phase' = "open" /\ UNCHANGED response
              \/ resp.status \notin 200 .. 299 /\ phase' = "draining" /\ response' = resp
    BY DEF ReceiveHeaders
  <1>2. /\ phase = "waiting" /\ UNCHANGED << call, attempt, index, key, sink, result >>
        /\ ~ rec.finished /\ result = "pending" /\ sink = << >>
    BY DEF ReceiveHeaders, Live, ReportInv, Ended, ReportedInv, OutcomeInv
  <1>3. /\ wire \in Seq(SendType) /\ n \in Nat /\ n > 0 /\ wire # << >>
        /\ RecorderOK(rec) /\ wire[n].host = index /\ index \in Nat
        /\ ~ rec.on => rec.attempts = << >> /\ ~ InFlight(rec)
        /\ rec.on => /\ InFlight(rec) /\ rec.current_index = n - 1
                     /\ rec.current_host = wire[n].host
                     /\ Accounts(rec, wire, index, Recorded)
                     /\ Len(rec.attempts) = Recorded
                     /\ ~ Opened(rec)
    BY <1>2, InTry DEF ReportedInv, Trying
  <1>4. /\ Answered(resp) \in AnswerType /\ Answered(resp).status = resp.status
        /\ resp.status \in Nat
    BY AnswersOK, EngineAssumption DEF ResponseType
  <1>5. /\ wire' \in Seq(SendType) /\ Len(wire') = n
        /\ \A i \in 1 .. n - 1 : wire'[i] = wire[i]
        /\ wire'[n].answer = Answered(resp)
        /\ wire'[n].host = wire[n].host
    BY <1>1, <1>3, <1>4, NoteOK
  <1>6. Recorded = n - 1 /\ Recorded' = n /\ wire' # << >>
    BY <1>1, <1>2, <1>3, <1>5, SMTT(30) DEF Recorded
  <1>7. /\ Kept(rec', rec) /\ Held(rec', wire', index, n)
        /\ rec'.on => /\ Last(rec'.attempts).http_status = resp.status
                      /\ Last(rec'.attempts).outcome =
                            IF resp.status < 400 THEN "ok" ELSE "http_error"
    <2>1. CASE ~ rec.on
      <3>1. rec' = rec
        BY <1>1, <1>3, <2>1 DEF OnResponse
      <3> QED BY <1>3, <2>1, <3>1 DEF Kept, Held
    <2>2. CASE rec.on
      <3> DEFINE q == OnResponse(rec, resp)
                 new == q.attempts[n]
      <3>1. /\ rec.current_index + 1 = n
            /\ Len(rec.attempts) \in {rec.current_index, rec.current_index + 1}
        BY <1>3, <1>6, <2>2
      <3>2. /\ Rewrites(q, rec, n)
            /\ new.host = rec.current_host /\ new.moved = FALSE
            /\ new.http_status = resp.status
            /\ new.outcome = IF resp.status < 400 THEN "ok" ELSE "http_error"
        <4>1. RecordsAnswer(q, rec, resp, rec.current_index + 1)
          BY <1>3, <2>2, <3>1, ResponseStored, ZenonT(30)
        <4>2. RecordsAnswer(q, rec, resp, n)
          BY <3>1, <4>1, ZenonT(30)
        <4> HIDE DEF q
        <4> QED BY <4>2, ZenonT(30) DEF RecordsAnswer
      <3>3. q = rec'
        BY <1>1
      <3> HIDE DEF q
      <3>4. /\ q.on = rec.on /\ Kept(q, rec) /\ Len(q.attempts) = n
            /\ q.current_index = rec.current_index
            /\ q.current_host = rec.current_host
        BY <3>2 DEF Rewrites, Stays, Kept
      <3>5. Accounts(q, wire', index, n)
        <4>1. /\ new.host = wire'[n].host /\ (new.moved <=> index # wire'[n].host)
              /\ ~ new.moved /\ new.http_status = wire'[n].answer.status
          BY <1>3, <1>4, <1>5, <2>2, <3>2
        <4>2. /\ Accounts(rec, wire, index, n - 1) /\ n - 1 \in {n - 1, n} /\ n - 1 # n
              /\ \A i \in 1 .. n : wire'[i].host = wire[i].host
              /\ \A i \in 1 .. n - 1 : wire'[i].answer = wire[i].answer
          BY <1>3, <1>5, <1>6, <2>2
        <4> HIDE DEF new
        <4>3. q.attempts[n] = new
          BY DEF new
        <4> QED BY <1>3, <1>5, <3>2, <4>1, <4>2, <4>3, RewriteAccounts, ZenonT(30)
      <3>6. Points(q, wire')
        BY <1>3, <1>5, <2>2, <3>4 DEF Points
      <3>7. Held(q, wire', index, n)
        BY <2>2, <3>4, <3>5, <3>6 DEF Held
      <3>8. Last(q.attempts) = new
        BY <3>4 DEF Last
      <3> QED BY <3>2, <3>3, <3>4, <3>7, <3>8
    <2> QED BY <2>1, <2>2
  <1>8. AccountInv'
    BY <1>1, <1>2, <1>6, <1>7 DEF AccountInv
  <1>9. ScopeInv'
    BY <1>1, <1>2, <1>3, <1>7, ZenonT(30)
    DEF ReportedInv, ScopeInv, Assembles, Routable, Kept
  <1>10. SinkInv'
    BY <1>2, <1>7 DEF SinkInv, Kept
  <1>11. OutcomeInv'
    <2>1. CASE resp.status \in 200 .. 299 /\ phase' = "open"
      <3>1. rec'.on => /\ Last(rec'.attempts).http_status \in 200 .. 299
                       /\ Last(rec'.attempts).outcome = "ok"
        <4>1. resp.status < 400
          BY <1>4, <2>1
        <4> QED BY <1>7, <2>1, <4>1, ZenonT(30)
      <3>2. result' = "pending" /\ phase' = "open"
        BY <1>2, <2>1
      <3> QED BY <3>1, <3>2, ZenonT(30) DEF OutcomeInv
    <2>2. CASE resp.status \notin 200 .. 299 /\ phase' = "draining" /\ response' = resp
      BY <1>2, <1>4, <1>7, <2>2, ZenonT(30) DEF OutcomeInv
    <2> QED BY <1>1, <2>1, <2>2
  <1> QED BY <1>1, <1>2, <1>7, <1>8, <1>9, <1>10, <1>11 DEF ReportedInv, Live, Kept

(* What a failure is called, and what the caller gets for it.              *)
LEMMA FailureTells ==
    ASSUME NEW a, NEW f \in FailureType, NEW res,
           a.outcome = FailureOutcome(f.timed_out, FALSE),
           res = IntoError(f) \/ (res = "api" /\ a.http_status # None)
    PROVE  Tells(a, res)
  BY DEF Tells, FailureOutcome, IntoError

(* An attempt that never got its headers.                                  *)
LEMMA SendFailureReports ==
    ASSUME TypeInv, WalkInv, ReportInv, ReportedInv, Live,
           NEW f \in FailureType, SendFails(f)
    PROVE  ReportedInv' /\ Live' /\ rec'.ttft = rec.ttft
  <1> DEFINE n == Len(wire)
             q == OnTransportError(rec, f, FALSE, FALSE)
             d == FromTransport(IntoError(f))
  <1>1. /\ phase = "waiting" /\ UNCHANGED << call, attempt, key, response >>
        /\ Note(Failed(f)) /\ Conclude(q, d)
    BY ZenonT(30) DEF SendFails
  <1>2. /\ ~ rec.finished /\ sink = << >> /\ (attempt > 0 => ReplaySafe)
    BY <1>1 DEF Live, ReportInv, Ended, WalkInv, SendsCounted
  <1>3. /\ wire \in Seq(SendType) /\ n \in Nat /\ n > 0 /\ wire # << >>
        /\ wire[n].host = index
    BY <1>1, InTry DEF ReportedInv, Trying
  <1>4. Failed(f) \in AnswerType /\ Failed(f).status = None
    BY AnswersOK, ZenonT(30) DEF Failed, NoAnswer
  <1>5. /\ wire' \in Seq(SendType) /\ Len(wire') = n
        /\ \A i \in 1 .. n - 1 : wire'[i] = wire[i]
        /\ wire'[n].answer = Failed(f) /\ wire'[n].host = wire[n].host
    BY <1>1, <1>3, <1>4, NoteOK
  <1>6. \A i \in 1 .. n : wire'[i].host = wire[i].host
    BY <1>3, <1>5
  <1>7. /\ RecorderOK(q) /\ Kept(q, rec) /\ Held(q, wire', index, Len(wire'))
        /\ q.on => Last(q.attempts).outcome = FailureOutcome(f.timed_out, FALSE)
    <2>1. phase \in Trying /\ (FALSE <=> phase # "waiting")
      BY <1>1 DEF Trying
    <2>2. wire'[n].answer.status = IF FALSE THEN wire[n].answer.status ELSE None
      BY <1>4, <1>5
    <2>3. \A i \in 1 .. n - 1 : wire'[i].answer = wire[i].answer
      BY <1>5
    <2> HIDE DEF q
    <2> QED BY <1>5, <1>6, <2>1, <2>2, <2>3, FailureAccounts, ZenonT(30)
            DEF ReportedInv, q
  <1>8. /\ d \in DispositionType /\ d.error = IntoError(f) /\ d.error # "config"
    BY DispositionOK, ZenonT(30) DEF FromTransport, IntoError
  <1> HIDE DEF q, d
  <1>9. q.on => Tells(Last(q.attempts), d.error)
    BY <1>7, <1>8, FailureTells, ZenonT(30)
  <1>10. wire' # << >> /\ wire'[Len(wire')].host = index /\ Len(wire') > 0
    BY <1>3, <1>5
  <1> QED BY <1>1, <1>2, <1>3, <1>5, <1>7, <1>8, <1>9, <1>10, ConcludeReports, ZenonT(30)
          DEF ReportedInv

(* A failure body that was read to its end.                                *)
LEMMA DrainReports ==
    ASSUME TypeInv, WalkInv, ReportInv, ReportedInv, Live, DrainCompletes
    PROVE  ReportedInv' /\ Live' /\ rec'.ttft = rec.ttft
  <1> DEFINE n == Len(wire)
             d == FromHttp(response)
  <1>1. /\ phase = "draining" /\ UNCHANGED << call, attempt, key, response, wire >>
        /\ Conclude(rec, d)
    BY DEF DrainCompletes
  <1>2. /\ ~ rec.finished /\ sink = << >> /\ (attempt > 0 => ReplaySafe)
    BY <1>1 DEF Live, ReportInv, Ended, WalkInv, SendsCounted
  <1>3. /\ wire \in Seq(SendType) /\ n \in Nat /\ n > 0 /\ wire # << >>
        /\ wire[n].host = index /\ RecorderOK(rec)
        /\ rec.on => Accounts(rec, wire, index, n)
    BY <1>1, InTry DEF ReportedInv, Trying, Recorded
  <1>4. Kept(rec, rec) /\ Held(rec, wire, index, n)
    BY <1>1 DEF Kept, ReportedInv, AccountInv, Recorded
  <1>5. d \in DispositionType /\ d.error = "api"
    BY <1>1, DispositionOK DEF TypeInv, FromHttp
  <1>6. rec.on => Tells(Last(rec.attempts), "api")
    <2> SUFFICES ASSUME rec.on PROVE Tells(Last(rec.attempts), "api")
      OBVIOUS
    <2>1. /\ response.status \notin 200 .. 299
          /\ Last(rec.attempts).outcome \in {"ok", "http_error"}
      BY <1>1, <1>3 DEF ReportedInv, OutcomeInv
    <2>2. Last(rec.attempts).http_status = wire[n].answer.status
      BY <1>3 DEF Accounts, Last
    <2>3. wire[n].answer.status = response.status
      <3>1. wire[n].answer = Answered(response)
        BY <1>1, <1>3 DEF WalkInv, LastSend
      <3>2. response \in Responses
        BY <1>1 DEF TypeInv
      <3> QED BY <3>1, <3>2, AnswersOK
    <2> QED BY <2>1, <2>2, <2>3, ZenonT(30) DEF Tells
  <1> HIDE DEF d
  <1> QED BY <1>1, <1>2, <1>3, <1>4, <1>5, <1>6, ConcludeReports DEF ReportedInv

(* What a broken body, of a failure or of a success, leaves in the history *)
(* and in the recorder.                                                    *)
LEMMA BodyFailureAccounts ==
    ASSUME TypeInv, WalkInv, AccountInv, phase \in {"draining", "open"},
           NEW f \in FailureType, Note(BodyFailed(Last(wire).answer, f))
    PROVE  LET q == OnTransportError(rec, f, TRUE, FALSE)
           IN  /\ wire # << >> /\ wire[Len(wire)].host = index
               /\ wire' \in Seq(SendType) /\ Len(wire') = Len(wire)
               /\ Len(wire') > 0 /\ wire' # << >>
               /\ wire'[Len(wire')].host = index
               /\ RecorderOK(q) /\ Kept(q, rec)
               /\ Held(q, wire', index, Len(wire'))
               /\ q.on => /\ Last(q.attempts).outcome = FailureOutcome(f.timed_out, FALSE)
                          /\ Last(q.attempts).http_status = wire[Len(wire)].answer.status
  <1> DEFINE n == Len(wire)
             a == BodyFailed(wire[n].answer, f)
             q == OnTransportError(rec, f, TRUE, FALSE)
  <1>1. /\ wire \in Seq(SendType) /\ n \in Nat /\ n > 0 /\ wire # << >>
        /\ wire[n].host = index
    BY InTry DEF Trying
  <1>2. wire[n].answer \in AnswerType
    <2>1. wire[n] \in SendType
      BY <1>1
    <2> QED BY <2>1 DEF SendType
  <1>3. a \in AnswerType /\ a.status = wire[n].answer.status /\ Note(a)
    BY <1>2, AnswersOK DEF Last
  <1> HIDE DEF a
  <1>4. /\ wire' \in Seq(SendType) /\ Len(wire') = n
        /\ \A i \in 1 .. n - 1 : wire'[i] = wire[i]
        /\ wire'[n].answer = a /\ wire'[n].host = wire[n].host
    BY <1>1, <1>3, NoteOK
  <1>5. \A i \in 1 .. n : wire'[i].host = wire[i].host
    BY <1>1, <1>4
  <1>6. /\ RecorderOK(q) /\ Kept(q, rec) /\ Held(q, wire', index, Len(wire'))
        /\ q.on => /\ Last(q.attempts).outcome = FailureOutcome(f.timed_out, FALSE)
                   /\ Last(q.attempts).http_status = wire'[Len(wire')].answer.status
    <2>1. phase \in Trying /\ (TRUE <=> phase # "waiting")
      BY DEF Trying
    <2>2. wire'[n].answer.status = IF TRUE THEN wire[n].answer.status ELSE None
      BY <1>3, <1>4
    <2>3. \A i \in 1 .. n - 1 : wire'[i].answer = wire[i].answer
      BY <1>4
    <2> HIDE DEF q
    <2> QED BY <1>4, <1>5, <2>1, <2>2, <2>3, FailureAccounts, ZenonT(30) DEF q
  <1> HIDE DEF q
  <1>7. wire' # << >> /\ wire'[Len(wire')].host = index /\ Len(wire') > 0
    BY <1>1, <1>4
  <1> QED BY <1>1, <1>3, <1>4, <1>6, <1>7, ZenonT(30) DEF q

(* A failure body that broke or stalled.                                   *)
LEMMA DrainFailureReports ==
    ASSUME TypeInv, WalkInv, ReportInv, ReportedInv, Live,
           NEW f \in FailureType, DrainFails(f)
    PROVE  ReportedInv' /\ Live' /\ rec'.ttft = rec.ttft
  <1> DEFINE n == Len(wire)
             d == FromHttp(response)
             q == OnTransportError(rec, f, TRUE, FALSE)
  <1>1. /\ phase = "draining" /\ UNCHANGED << call, attempt, key, response >>
        /\ Note(BodyFailed(Last(wire).answer, f))
        /\ \/ Conclude(q, d)
           \/ EndWith(q, FALSE, IntoError(f)) /\ UNCHANGED << index, delay >>
    BY ZenonT(30) DEF DrainFails
  <1>2. /\ ~ rec.finished /\ sink = << >> /\ (attempt > 0 => ReplaySafe)
    BY <1>1, ZenonT(30) DEF Live, ReportInv, Ended, WalkInv, SendsCounted
  <1>3. /\ wire # << >> /\ wire[n].host = index
        /\ wire' \in Seq(SendType) /\ Len(wire') = n
        /\ Len(wire') > 0 /\ wire' # << >> /\ wire'[Len(wire')].host = index
        /\ RecorderOK(q) /\ Kept(q, rec) /\ Held(q, wire', index, Len(wire'))
        /\ q.on => /\ Last(q.attempts).outcome = FailureOutcome(f.timed_out, FALSE)
                   /\ Last(q.attempts).http_status = wire[n].answer.status
    BY <1>1, BodyFailureAccounts, ZenonT(30) DEF ReportedInv
  <1>4. /\ d \in DispositionType /\ d.error = "api"
        /\ IntoError(f) \in {"timeout", "transport"}
    BY <1>1, DispositionOK DEF TypeInv, FromHttp
  <1>5. wire[n].answer.status # None
    <2>1. response \in Responses /\ wire[n].answer = Answered(response)
      BY <1>1, <1>3, ZenonT(30) DEF TypeInv, WalkInv, LastSend
    <2>2. response.status \in Nat
      BY <2>1, EngineAssumption DEF ResponseType
    <2>3. wire[n].answer.status = response.status
      BY <2>1, AnswersOK
    <2> QED BY <2>2, <2>3 DEF None
  <1> HIDE DEF q, d
  <1>6. q.on => Tells(Last(q.attempts), "api") /\ Tells(Last(q.attempts), IntoError(f))
    BY <1>3, <1>5, FailureTells, ZenonT(30)
  <1>7. CASE Conclude(q, d)
    BY <1>1, <1>2, <1>3, <1>4, <1>6, <1>7, ConcludeReports, ZenonT(30) DEF ReportedInv
  <1>8. CASE EndWith(q, FALSE, IntoError(f)) /\ UNCHANGED << index, delay >>
    <2>1. /\ IntoError(f) \in Results /\ IntoError(f) # "pending"
          /\ phase \notin {"idle", "done"} /\ FALSE \in BOOLEAN
          /\ UNCHANGED << call, attempt, index >>
      BY <1>1, <1>4, <1>8 DEF Results
    <2> QED BY <1>2, <1>3, <1>6, <1>8, <2>1, EndReports, ZenonT(30) DEF ReportedInv
  <1> QED BY <1>1, <1>7, <1>8, ZenonT(30)

(* A success body that broke or stalled ends the call.                     *)
LEMMA BodyFailureReports ==
    ASSUME TypeInv, WalkInv, ReportInv, ReportedInv, Live,
           NEW f \in FailureType, BodyFails(f)
    PROVE  ReportedInv' /\ Live' /\ rec'.ttft = rec.ttft
  <1> DEFINE q == OnTransportError(rec, f, TRUE, FALSE)
  <1>1. /\ phase = "open" /\ UNCHANGED << call, attempt, index >>
        /\ Note(BodyFailed(Last(wire).answer, f))
        /\ EndWith(q, FALSE, IntoError(f))
    BY ZenonT(30) DEF BodyFails, Buffered
  <1>2. ~ rec.finished /\ sink = << >>
    BY <1>1 DEF Live, ReportInv, Ended
  <1>3. /\ wire # << >>
        /\ RecorderOK(q) /\ Kept(q, rec) /\ Held(q, wire', index, Len(wire'))
        /\ q.on => Last(q.attempts).outcome = FailureOutcome(f.timed_out, FALSE)
    BY <1>1, BodyFailureAccounts, ZenonT(30) DEF ReportedInv
  <1> HIDE DEF q
  <1>4. q.on => Tells(Last(q.attempts), IntoError(f))
    BY <1>3, FailureTells, ZenonT(30)
  <1>5. /\ IntoError(f) \in Results /\ IntoError(f) # "pending"
        /\ phase \notin {"idle", "done"} /\ FALSE \in BOOLEAN
    BY <1>1, DispositionOK DEF Results
  <1> QED BY <1>1, <1>2, <1>3, <1>4, <1>5, EndReports, ZenonT(30) DEF ReportedInv

(* A success body that was read to its end.                                *)
LEMMA BodyReports ==
    ASSUME TypeInv, WalkInv, ReportInv, ReportedInv, Live, BodyCompletes
    PROVE  ReportedInv' /\ Live' /\ rec'.ttft = rec.ttft
  <1>1. /\ phase = "open" /\ UNCHANGED << call, attempt, index, wire >>
        /\ EndWith(rec, FALSE, "ok")
    BY ZenonT(30) DEF BodyCompletes, Buffered
  <1>2. ~ rec.finished /\ sink = << >>
    BY <1>1 DEF Live, ReportInv, Ended
  <1>3. /\ RecorderOK(rec) /\ Kept(rec, rec) /\ wire # << >>
        /\ Held(rec, wire, index, Len(wire))
    BY <1>1, InTry DEF Trying, Kept, ReportedInv, AccountInv, Recorded
  <1>4. rec.on => Tells(Last(rec.attempts), "ok")
    BY <1>1, <1>2, <1>3 DEF ReportedInv, OutcomeInv, Tells
  <1>5. /\ "ok" \in Results /\ FALSE \in BOOLEAN
        /\ phase \notin {"idle", "done"} /\ wire' = wire
        /\ Held(rec, wire', index, Len(wire'))
    BY <1>1, <1>3 DEF Results
  <1> QED BY <1>1, <1>2, <1>3, <1>4, <1>5, EndReports, ZenonT(30) DEF ReportedInv

(* The caller drops the future.                                            *)
LEMMA DropReports ==
    ASSUME TypeInv, WalkInv, ReportInv, ReportedInv, Live, CallerDrops
    PROVE  ReportedInv' /\ Live' /\ rec'.ttft = rec.ttft
  <1> DEFINE q == Dropped(rec)
  <1>1. /\ phase \in Trying \cup {"sleeping"}
        /\ UNCHANGED << call, attempt, index, wire >>
        /\ EndWith(q, FALSE, "dropped")
    BY ZenonT(30) DEF CallerDrops, Suspended, Buffered, Trying
  <1>2. ~ rec.finished /\ sink = << >>
    BY <1>1 DEF Live, ReportInv, Ended, Trying
  <1>3. /\ RecorderOK(q) /\ Kept(q, rec) /\ Held(q, wire, index, Len(wire))
        /\ q.on => Last(q.attempts).outcome = "aborted"
    BY <1>1, <1>2, AbortAccounts, ZenonT(30) DEF ReportedInv
  <1> HIDE DEF q
  <1>4. q.on => Tells(Last(q.attempts), "dropped")
    BY <1>3 DEF Tells
  <1>5. /\ "dropped" \in Results /\ FALSE \in BOOLEAN
        /\ phase \notin {"idle", "done"} /\ wire' = wire
        /\ Held(q, wire', index, Len(wire'))
    BY <1>1, <1>3 DEF Results, Trying
  <1> QED BY <1>1, <1>2, <1>3, <1>4, <1>5, EndReports, ZenonT(30) DEF ReportedInv

(* The end of a backoff.                                                   *)
LEMMA WakeReports ==
    ASSUME TypeInv, WalkInv, ReportInv, ReportedInv, Live, Wake
    PROVE  ReportedInv' /\ Live' /\ rec'.ttft = rec.ttft
  <1>1. /\ phase = "sleeping" /\ phase' = "ready"
        /\ UNCHANGED << call, index, response, rec, sink, wire, result >>
    BY DEF Wake
  <1>2. result = "pending" /\ sink = << >>
    BY <1>1 DEF ReportedInv, OutcomeInv, ReportInv, Ended, Live
  <1>3. AccountInv'
    BY <1>1 DEF ReportedInv, AccountInv, Recorded
  <1>4. ScopeInv'
    BY <1>1 DEF ReportedInv, ScopeInv
  <1>5. SinkInv'
    BY <1>1, <1>2 DEF ReportedInv, SinkInv
  <1>6. OutcomeInv'
    BY <1>1, <1>2 DEF OutcomeInv
  <1> QED BY <1>1, <1>3, <1>4, <1>5, <1>6 DEF ReportedInv, Live

(* Every step of the engine.                                               *)
LEMMA EngineReports ==
    ASSUME TypeInv, WalkInv, ReportInv, ReportedInv, Live, EngineNext
    PROVE  ReportedInv' /\ Live' /\ (~ rec.ttft => ~ rec'.ttft)
  <1>1. CASE Start
    BY <1>1, StartReports
  <1>2. CASE BeginSend
    BY <1>2, SendReports
  <1>3. CASE Wake
    BY <1>3, WakeReports
  <1>4. CASE ReceiveHeaders
    BY <1>4, HeadersReport
  <1>5. CASE DrainCompletes
    BY <1>5, DrainReports
  <1>6. CASE BodyCompletes
    BY <1>6, BodyReports
  <1>7. CASE CallerDrops
    BY <1>7, DropReports
  <1>8. ASSUME NEW f \in FailureType, SendFails(f) \/ DrainFails(f) \/ BodyFails(f)
        PROVE  ReportedInv' /\ Live' /\ rec'.ttft = rec.ttft
    BY <1>8, SendFailureReports, DrainFailureReports, BodyFailureReports
  <1>9. Deadline \in FailureType /\ TransportFailures \subseteq FailureType
    BY EngineAssumption DEF Deadline, FailureType, ErrorClasses
  <1>10. CASE DeadlineElapses \/ TransportBreaks
    BY <1>8, <1>9, <1>10 DEF DeadlineElapses, TransportBreaks
  <1> QED BY <1>1, <1>2, <1>3, <1>4, <1>5, <1>6, <1>7, <1>10
          DEF EngineNext, Local, Environment

(* Before the call starts.                                                 *)
LEMMA InitReports ==
    Init => ReportedInv /\ Live
  <1> SUFFICES ASSUME Init PROVE ReportedInv /\ Live
    OBVIOUS
  <1> USE DEF Init
  <1>1. /\ ~ rec.on /\ ~ rec.finished /\ ~ rec.ttft /\ rec.attempts = << >>
        /\ ~ InFlight(rec)
    BY DEF NewRecorder, InFlight
  <1>2. /\ phase = "idle" /\ wire = << >> /\ sink = << >> /\ result = "pending"
    OBVIOUS
  <1>3. AccountInv
    BY <1>1, <1>2, ZenonT(30) DEF AccountInv, Held
  <1>4. ScopeInv /\ SinkInv /\ OutcomeInv /\ Live
    BY <1>1, <1>2, ZenonT(30) DEF ScopeInv, SinkInv, OutcomeInv, Live
  <1> QED BY <1>3, <1>4 DEF ReportedInv

-----------------------------------------------------------------------------
(* The last record of a stream whose body failed.                          *)
Broke(a) ==
    /\ a.http_status \in 200 .. 299
    /\ frames = 0 => a.outcome \in {"transport_error", "timeout"}
    /\ frames > 0 => \/ a.outcome = "stream_broken"
                     \/ /\ a.outcome = "timeout" /\ a.phase = "idle"
                        /\ a.error_class = "stream_stalled"

(* The consumer saw the whole stream.                                      *)
Whole == seen \in {"end", "truncated", "done"}

(* The consumer dropped the stream before its end.                         *)
Quit == stage = "released" /\ seen \in {"nothing", "terminal"}

(* The moment at which the stream stands, in the recorder.                 *)
MomentInv ==
    /\ frames \in Nat /\ (body_started <=> frames > 0)
    /\ stage \in {"closed", "reading", "terminal", "ended", "released"}
    /\ stage \in {"reading", "terminal"} => ~ rec.finished
    /\ stage = "closed" => Live /\ seen = "nothing" /\ frames = 0 /\ ~ rec.ttft
    /\ stage = "released" => phase = "done"
    /\ stage # "closed" => /\ result = "pending" /\ call.streaming /\ wire # << >>
                           /\ phase \in {"open", "done"}
                           /\ rec.on => (rec.ttft <=> frames > 0)
    /\ seen = "wire_error" => rec.finished /\ (rec.on => Broke(Last(rec.attempts)))
    /\ Whole => rec.finished /\ (rec.on => Last(rec.attempts).outcome = "ok")
    /\ stage = "ended" => seen \notin {"nothing", "terminal"}
    /\ Quit => (rec.on => Last(rec.attempts).outcome = "aborted")

(* q is r, perhaps with a time to first token.                             *)
Stamped(q, r) ==
    /\ q.on = r.on /\ q.recordable = r.recordable /\ q.finished = r.finished
    /\ q.attempts = r.attempts /\ q.failover_used = r.failover_used
    /\ q.current_index = r.current_index /\ q.current_host = r.current_host

(* on_event stamps the time to first token and nothing else.               *)
LEMMA EventStamps ==
    ASSUME NEW r, RecorderOK(r)
    PROVE  /\ RecorderOK(OnFirstEvent(r)) /\ Stamped(OnFirstEvent(r), r)
           /\ InFlight(r) => OnFirstEvent(r).ttft = TRUE
  <1>1. RecorderOK(OnFirstEvent(r))
    BY FirstEventOK
  <1>2. CASE InFlight(r)
    <2> DEFINE q == [r EXCEPT !.ttft = TRUE]
    <2>1. /\ q.on = r.on /\ q.recordable = r.recordable /\ q.finished = r.finished
          /\ q.attempts = r.attempts /\ q.failover_used = r.failover_used
          /\ q.current_index = r.current_index /\ q.current_host = r.current_host
          /\ q.ttft = TRUE
      BY DEF RecorderOK, RecorderType
    <2>2. OnFirstEvent(r) = q
      BY <1>2 DEF OnFirstEvent
    <2> HIDE DEF q
    <2> QED BY <1>1, <2>1, <2>2 DEF Stamped
  <1>3. CASE ~ InFlight(r)
    BY <1>1, <1>3, ZenonT(30) DEF OnFirstEvent, Stamped
  <1> QED BY <1>2, <1>3, ZenonT(30)

(* A time to first token does not touch the account of the wire.           *)
LEMMA StampedHeld ==
    ASSUME NEW q, NEW r, Stamped(q, r), NEW w, NEW i, NEW m, Held(r, w, i, m)
    PROVE  Held(q, w, i, m)
  BY ZenonT(30) DEF Stamped, Held, Points, Accounts, InFlight

(* What an open stream knows of its call.                                  *)
LEMMA OpenStream ==
    ASSUME CallInv, ReportedInv, MomentInv,
           stage \in {"reading", "terminal"} \/ (stage = "ended" /\ ~ rec.finished)
    PROVE  /\ phase = "open" /\ call.streaming /\ ~ rec.finished /\ sink = << >>
           /\ result = "pending" /\ wire # << >> /\ RecorderOK(rec)
           /\ TypeInv /\ WalkInv /\ AccountInv /\ body_started \in BOOLEAN
           /\ Held(rec, wire, index, Len(wire))
           /\ rec.on => /\ InFlight(rec) /\ Last(rec.attempts).outcome = "ok"
                        /\ Last(rec.attempts).http_status \in 200 .. 299
                        /\ Last(rec.attempts).http_status = wire[Len(wire)].answer.status
           /\ seen # "wire_error" /\ ~ Whole
  <1>1. /\ phase = "open" /\ call.streaming /\ ~ rec.finished /\ sink = << >>
        /\ body_started \in BOOLEAN
    BY DEF CallInv, StageInv, HandedOver, MomentInv, ReportInv, Ended
  <1>2. /\ result = "pending" /\ wire # << >> /\ seen # "wire_error" /\ ~ Whole
        /\ TypeInv /\ WalkInv /\ AccountInv
    BY <1>1 DEF MomentInv, CallInv, ReportedInv
  <1>3. phase \in Trying \cup {"sleeping"} /\ Recorded = Len(wire)
    BY <1>1 DEF Trying, Recorded
  <1>4. /\ wire \in Seq(SendType) /\ Len(wire) \in Nat /\ Len(wire) > 0
        /\ RecorderOK(rec)
        /\ rec.on => InFlight(rec) /\ Accounts(rec, wire, index, Len(wire))
    BY <1>2, <1>3, InTry
  <1>5. rec.on => /\ Last(rec.attempts).outcome = "ok"
                  /\ Last(rec.attempts).http_status \in 200 .. 299
    BY <1>1, <1>2 DEF ReportedInv, OutcomeInv
  <1>6. rec.on => Last(rec.attempts).http_status = wire[Len(wire)].answer.status
    BY <1>4 DEF Accounts, Last
  <1>7. Held(rec, wire, index, Len(wire))
    BY <1>2, <1>3 DEF AccountInv
  <1> QED BY <1>1, <1>2, <1>4, <1>5, <1>6, <1>7, ZenonT(30)

(* What a step on the stream keeps of the engine.                          *)
StreamOnly == UNCHANGED << call, attempt, index, key, response, delay, wire, result >>

(* A step that finishes the record of an open stream.                      *)
LEMMA StreamEndReports ==
    ASSUME ReportedInv, phase = "open", result = "pending", sink = << >>,
           ~ rec.finished, NEW r, RecorderOK(r), Held(r, wire, index, Len(wire)),
           r.on = rec.on, r.recordable = rec.recordable, r.finished = rec.finished,
           rec' = Finished(r), sink' = sink \o Reports(r, FALSE),
           StreamOnly, phase' \in {"open", "done"}
    PROVE  /\ ReportedInv' /\ rec'.finished /\ rec'.on = rec.on
           /\ rec'.ttft = r.ttft /\ rec'.attempts = r.attempts
  <1>1. /\ rec'.finished = TRUE /\ rec'.attempts = r.attempts /\ rec'.ttft = r.ttft
        /\ rec'.on = rec.on /\ rec'.recordable = rec.recordable
    BY FinishLeaves, ZenonT(30)
  <1>2. AccountInv'
    <2>1. Held(rec', wire, index, Len(wire))
      BY FinishedHeld
    <2>2. wire' = wire /\ index' = index /\ Recorded' = Len(wire) /\ phase' # "waiting"
      BY DEF StreamOnly, Recorded
    <2> QED BY <2>1, <2>2 DEF AccountInv
  <1>3. ScopeInv'
    BY <1>1 DEF StreamOnly, ReportedInv, ScopeInv
  <1>4. SinkInv'
    <2>1. Justified(FALSE)' /\ FALSE \in BOOLEAN /\ ~ r.finished
      BY DEF Justified
    <2> QED BY <2>1, FinishSinks, ZenonT(30)
  <1>5. OutcomeInv'
    BY <1>1, ZenonT(30) DEF StreamOnly, OutcomeInv
  <1> QED BY <1>1, <1>2, <1>3, <1>4, <1>5 DEF ReportedInv

(* A step that leaves the record of an open stream open.                   *)
LEMMA StreamGoesOnReports ==
    ASSUME ReportedInv, phase = "open", result = "pending", sink = << >>,
           ~ rec.finished, Held(rec, wire, index, Len(wire)),
           Stamped(rec', rec), sink' = sink, StreamOnly, phase' = phase
    PROVE  ReportedInv'
  <1>1. AccountInv'
    <2>1. Held(rec', wire, index, Len(wire))
      BY StampedHeld
    <2>2. wire' = wire /\ index' = index /\ Recorded' = Len(wire) /\ phase' # "waiting"
      BY DEF StreamOnly, Recorded
    <2> QED BY <2>1, <2>2 DEF AccountInv
  <1>2. ScopeInv'
    BY DEF StreamOnly, ReportedInv, ScopeInv, Stamped
  <1>3. SinkInv'
    BY DEF ReportedInv, SinkInv, Stamped
  <1>4. OutcomeInv'
    BY DEF StreamOnly, ReportedInv, OutcomeInv, Stamped
  <1> QED BY <1>1, <1>2, <1>3, <1>4 DEF ReportedInv

(* A decoded event.                                                        *)
LEMMA FrameReports ==
    ASSUME CallInv, ReportedInv, MomentInv, NEW frame \in FrameKinds,
           ReceiveFrame(frame)
    PROVE  ReportedInv' /\ MomentInv'
  <1> DEFINE r == AfterEvent
  <1>1. /\ stage = "reading" /\ frames' = frames + 1 /\ body_started' = TRUE
        /\ StreamOnly /\ phase' = phase /\ kind' = kind
    BY DEF ReceiveFrame, StreamOnly
  <1>2. /\ phase = "open" /\ call.streaming /\ ~ rec.finished /\ sink = << >>
        /\ result = "pending" /\ wire # << >> /\ RecorderOK(rec)
        /\ Held(rec, wire, index, Len(wire))
        /\ rec.on => InFlight(rec) /\ Last(rec.attempts).outcome = "ok"
        /\ seen # "wire_error" /\ ~ Whole
    BY <1>1, OpenStream, ZenonT(30)
  <1>3. frames \in Nat /\ (body_started <=> frames > 0) /\ (rec.on => (rec.ttft <=> frames > 0))
    BY <1>1 DEF MomentInv
  <1>4. /\ RecorderOK(r) /\ Stamped(r, rec)
        /\ rec.on => r.ttft
    <2>1. CASE body_started
      BY <1>2, <1>3, <2>1 DEF AfterEvent, Stamped
    <2>2. CASE ~ body_started
      BY <1>2, <2>2, EventStamps, ZenonT(30) DEF AfterEvent
    <2> QED BY <2>1, <2>2
  <1> HIDE DEF r
  <1>5. Held(r, wire, index, Len(wire))
    BY <1>2, <1>4, StampedHeld
  <1>6. /\ r.on = rec.on /\ r.recordable = rec.recordable /\ r.finished = rec.finished
        /\ r.attempts = rec.attempts
    BY <1>4 DEF Stamped
  <1>7. frames' \in Nat /\ (body_started' <=> frames' > 0) /\ frames' > 0
    BY <1>1, <1>3
  <1>8. /\ result' = "pending" /\ call'.streaming /\ wire' # << >> /\ phase' = "open"
    BY <1>1, <1>2 DEF StreamOnly
  <1>9. CASE OnComplete(r) /\ stage' = "ended" /\ seen' = "done"
    <2>1. /\ ReportedInv' /\ rec'.finished /\ rec'.on = rec.on
          /\ rec'.ttft = r.ttft /\ rec'.attempts = r.attempts
      BY <1>1, <1>2, <1>4, <1>5, <1>6, <1>9, StreamEndReports, ZenonT(30) DEF OnComplete
    <2> QED BY <1>2, <1>4, <1>6, <1>7, <1>8, <1>9, <2>1, ZenonT(30) DEF MomentInv, Whole, Quit
  <1>10. CASE /\ rec' = r /\ UNCHANGED sink
              /\ \/ stage' = "terminal" /\ seen' = "terminal" /\ kind = "responses"
                 \/ stage' = "ended" /\ seen' = "protocol_error"
                 \/ UNCHANGED << stage, seen >>
    <2>1. ReportedInv'
      BY <1>1, <1>2, <1>4, <1>10, StreamGoesOnReports
    <2>2. /\ ~ Whole' /\ seen' # "wire_error" /\ ~ Quit'
          /\ stage' = "ended" => seen' \notin {"nothing", "terminal"}
      BY <1>1, <1>2, <1>10 DEF Whole, Quit
    <2>3. /\ ~ rec'.finished /\ (rec'.on => (rec'.ttft <=> frames' > 0))
          /\ stage' \in {"reading", "terminal", "ended"}
      BY <1>1, <1>2, <1>4, <1>6, <1>7, <1>10
    <2> QED BY <1>7, <1>8, <2>1, <2>2, <2>3 DEF MomentInv
  <1> QED BY <1>9, <1>10 DEF ReceiveFrame, r

(* The ends of a body that leave the outcome of the response.              *)
LEMMA CompletionReports ==
    ASSUME CallInv, ReportedInv, MomentInv,
           PollPastTerminal \/ EndOfBody \/ FramingError
    PROVE  ReportedInv' /\ MomentInv'
  <1>1. /\ stage \in {"reading", "terminal"} /\ stage' = "ended" /\ OnComplete(rec)
        /\ StreamOnly /\ phase' = phase /\ UNCHANGED << kind, frames, body_started >>
        /\ seen' \in {"truncated", "end", "protocol_error"}
    BY DEF PollPastTerminal, EndOfBody, FramingError, StreamOnly
  <1>2. /\ phase = "open" /\ call.streaming /\ ~ rec.finished /\ sink = << >>
        /\ result = "pending" /\ wire # << >> /\ RecorderOK(rec)
        /\ Held(rec, wire, index, Len(wire))
        /\ rec.on => InFlight(rec) /\ Last(rec.attempts).outcome = "ok"
        /\ seen # "wire_error"
    BY <1>1, OpenStream, ZenonT(30)
  <1>3. /\ frames \in Nat /\ (body_started <=> frames > 0)
        /\ rec.on => (rec.ttft <=> frames > 0)
    BY <1>1 DEF MomentInv
  <1>4. /\ ReportedInv' /\ rec'.finished /\ rec'.on = rec.on
        /\ rec'.ttft = rec.ttft /\ rec'.attempts = rec.attempts
    BY <1>1, <1>2, StreamEndReports, ZenonT(30) DEF OnComplete
  <1>5. result' = "pending" /\ call'.streaming /\ wire' # << >> /\ phase' = "open"
    BY <1>1, <1>2 DEF StreamOnly
  <1>6. /\ seen' # "wire_error" /\ ~ Quit'
        /\ seen' \notin {"nothing", "terminal"}
    BY <1>1 DEF Quit
  <1> QED BY <1>1, <1>2, <1>3, <1>4, <1>5, <1>6, ZenonT(30) DEF MomentInv

(* A body that breaks or falls silent.  A timeout is a read timeout here:  *)
(* nothing connects any more.                                              *)
LEMMA WireFailureReports ==
    ASSUME CallInv, ReportedInv, MomentInv, NEW f \in FailureType,
           f.timed_out => f.class = "read_timeout", WireFails(f)
    PROVE  ReportedInv' /\ MomentInv'
  <1> DEFINE r == OnTransportError(rec, f, TRUE, body_started)
  <1>1. /\ stage = "reading" /\ stage' = "ended" /\ seen' = "wire_error"
        /\ OnComplete(r) /\ StreamOnly /\ phase' = phase
        /\ UNCHANGED << kind, frames, body_started >>
    BY ZenonT(30) DEF WireFails, OnWireFailure, StreamOnly
  <1>2. /\ phase = "open" /\ call.streaming /\ ~ rec.finished /\ sink = << >>
        /\ result = "pending" /\ wire # << >> /\ TypeInv /\ WalkInv /\ AccountInv
        /\ body_started \in BOOLEAN
        /\ rec.on => /\ Last(rec.attempts).http_status \in 200 .. 299
                     /\ Last(rec.attempts).http_status = wire[Len(wire)].answer.status
    BY <1>1, OpenStream, ZenonT(30)
  <1>3. /\ frames \in Nat /\ (body_started <=> frames > 0)
        /\ rec.on => (rec.ttft <=> frames > 0)
    BY <1>1 DEF MomentInv
  <1>4. /\ RecorderOK(r) /\ Kept(r, rec) /\ Held(r, wire, index, Len(wire))
        /\ r.on =>
             /\ Last(r.attempts).outcome = FailureOutcome(f.timed_out, body_started)
             /\ Last(r.attempts).http_status = wire[Len(wire)].answer.status
             /\ f.timed_out /\ body_started => Last(r.attempts).phase = "idle"
             /\ f.timed_out /\ body_started /\ f.class = "read_timeout"
                  => Last(r.attempts).error_class = "stream_stalled"
    <2>1. /\ phase \in Trying /\ (TRUE <=> phase # "waiting") /\ TRUE \in BOOLEAN
          /\ wire \in Seq(SendType)
          /\ wire[Len(wire)].answer.status =
               IF TRUE THEN wire[Len(wire)].answer.status ELSE None
      BY <1>2 DEF Trying, WalkInv
    <2> HIDE DEF r
    <2> QED BY <1>2, <2>1, FailureAccounts, ZenonT(30) DEF r
  <1> HIDE DEF r
  <1>5. r.on = rec.on /\ r.recordable = rec.recordable /\ r.finished = rec.finished
        /\ r.ttft = rec.ttft
    BY <1>4 DEF Kept
  <1>6. /\ ReportedInv' /\ rec'.finished /\ rec'.on = rec.on
        /\ rec'.ttft = r.ttft /\ rec'.attempts = r.attempts
    BY <1>1, <1>2, <1>4, <1>5, StreamEndReports, ZenonT(30) DEF OnComplete
  <1>7. rec'.on => Broke(Last(rec.attempts))'
    <2> SUFFICES ASSUME rec'.on PROVE Broke(Last(rec.attempts))'
      OBVIOUS
    <2> DEFINE a == Last(r.attempts)
    <2>1. a.http_status \in 200 .. 299 /\ a = Last(rec.attempts)' /\ frames' = frames
      BY <1>1, <1>2, <1>4, <1>5, <1>6, ZenonT(30)
    <2>2. /\ a.outcome = FailureOutcome(f.timed_out, body_started)
          /\ f.timed_out /\ body_started => a.phase = "idle" /\ a.error_class = "stream_stalled"
      BY <1>4, <1>5, <1>6, ZenonT(30)
    <2>3. /\ ~ body_started => a.outcome \in {"transport_error", "timeout"}
          /\ body_started => \/ a.outcome = "stream_broken"
                             \/ /\ a.outcome = "timeout" /\ a.phase = "idle"
                                /\ a.error_class = "stream_stalled"
      BY <2>2, ZenonT(30) DEF FailureOutcome
    <2>4. (frames = 0 => ~ body_started) /\ (frames > 0 => body_started)
      BY <1>3
    <2> HIDE DEF a
    <2> QED BY <2>1, <2>3, <2>4 DEF Broke
  <1>8. result' = "pending" /\ call'.streaming /\ wire' # << >> /\ phase' = "open"
    BY <1>1, <1>2 DEF StreamOnly
  <1>9. ~ Whole' /\ ~ Quit' /\ seen' \notin {"nothing", "terminal"}
    BY <1>1 DEF Whole, Quit
  <1> QED BY <1>1, <1>3, <1>5, <1>6, <1>7, <1>8, <1>9 DEF MomentInv

(* The last handle of the stream goes.                                     *)
LEMMA ReleaseReports ==
    ASSUME CallInv, ReportedInv, MomentInv, Release
    PROVE  ReportedInv' /\ MomentInv'
  <1> DEFINE r == Dropped(rec)
  <1>1. /\ stage \in {"reading", "terminal", "ended"} /\ stage' = "released"
        /\ phase' = "done" /\ rec' = Finished(r) /\ sink' = sink \o Reports(r, FALSE)
        /\ StreamOnly /\ UNCHANGED << kind, frames, body_started, seen >>
    BY DEF Release, StreamOnly
  <1>2. /\ frames \in Nat /\ (body_started <=> frames > 0)
        /\ result = "pending" /\ call.streaming /\ wire # << >> /\ phase = "open"
        /\ rec.on => (rec.ttft <=> frames > 0)
        /\ RecorderOK(rec)
    BY <1>1 DEF MomentInv, CallInv, StageInv, HandedOver, TypeInv
  <1>3. result' = "pending" /\ call'.streaming /\ wire' # << >>
    BY <1>1, <1>2 DEF StreamOnly
  <1>4. CASE rec.finished
    <2>1. r = rec
      BY <1>4 DEF Dropped
    <2>2. rec' = rec /\ sink' = sink
      <3>1. rec' = rec
        BY <1>1, <1>2, <1>4, <2>1, FinishTwice
      <3>2. AtMostOneEvent(sink)
        BY DEF CallInv, ReportInv
      <3>3. sink \o Reports(rec, FALSE) = sink
        BY <1>4, <3>2, ReportsOnce, ZenonT(30)
      <3> HIDE DEF r
      <3> QED BY <1>1, <2>1, <3>1, <3>3, ZenonT(30)
    <2>3. AccountInv' /\ OutcomeInv'
      BY <1>1, <1>2, <2>2 DEF ReportedInv, AccountInv, OutcomeInv, Recorded, StreamOnly
    <2>4. ScopeInv'
      BY <1>1, <1>2, <1>4, <2>2 DEF ReportedInv, ScopeInv, StreamOnly
    <2>5. SinkInv'
      BY <1>1, <2>2, ZenonT(30) DEF ReportedInv, SinkInv, StreamOnly, Justified
    <2>6. MomentInv'
      <3>0. /\ stage' = "released" /\ phase' = "done" /\ frames' = frames
            /\ body_started' = body_started /\ seen' = seen /\ kind' = kind
        BY <1>1
      <3>1. frames' \in Nat /\ (body_started' <=> frames' > 0)
        BY <1>2, <3>0
      <3>2. rec'.on => (rec'.ttft <=> frames' > 0)
        BY <1>2, <2>2, <3>0, ZenonT(30)
      <3>3. seen' = "wire_error" =>
              rec'.finished /\ (rec'.on => Broke(Last(rec.attempts))')
        BY <2>2, <3>0, ZenonT(30) DEF MomentInv, Broke
      <3>4. Whole' => rec'.finished /\ (rec'.on => Last(rec'.attempts).outcome = "ok")
        BY <2>2, <3>0, ZenonT(30) DEF MomentInv, Whole
      <3>5. ~ Quit'
        <4>1. stage = "ended"
          BY <1>1, <1>4 DEF MomentInv
        <4> QED BY <3>0, <4>1 DEF MomentInv, Quit
      <3> QED BY <1>3, <3>0, <3>1, <3>2, <3>3, <3>4, <3>5 DEF MomentInv
    <2> QED BY <2>3, <2>4, <2>5, <2>6 DEF ReportedInv
  <1>5. CASE ~ rec.finished
    <2>1. /\ sink = << >> /\ TypeInv /\ WalkInv /\ AccountInv
          /\ seen # "wire_error" /\ ~ Whole
      BY <1>1, <1>5, OpenStream, ZenonT(30)
    <2>2. /\ RecorderOK(r) /\ Kept(r, rec) /\ Held(r, wire, index, Len(wire))
          /\ r.on => Last(r.attempts).outcome = "aborted"
      <3>1. phase \in Trying \cup {"sleeping"}
        BY <1>2 DEF Trying
      <3> QED BY <1>5, <2>1, <3>1, AbortAccounts, ZenonT(30)
    <2> HIDE DEF r
    <2>3. r.on = rec.on /\ r.recordable = rec.recordable /\ r.finished = rec.finished
          /\ r.ttft = rec.ttft
      BY <2>2 DEF Kept
    <2>4. /\ ReportedInv' /\ rec'.finished /\ rec'.on = rec.on
          /\ rec'.ttft = r.ttft /\ rec'.attempts = r.attempts
      BY <1>1, <1>2, <1>5, <2>1, <2>2, <2>3, StreamEndReports, ZenonT(30)
    <2>5. seen' # "wire_error" /\ ~ Whole'
      BY <1>1, <2>1 DEF Whole
    <2>6. rec'.on => Last(rec'.attempts).outcome = "aborted"
      BY <2>2, <2>3, <2>4, ZenonT(30)
    <2> QED BY <1>1, <1>2, <1>3, <2>3, <2>4, <2>5, <2>6 DEF MomentInv
  <1> QED BY <1>4, <1>5

-----------------------------------------------------------------------------
StreamReportInv == CallInv /\ ReportedInv /\ MomentInv

(* A step that leaves the call, its recorder and the wire alone leaves the  *)
(* account of them alone: handing the response over, and stuttering.       *)
LEMMA ReportUntouched ==
    ASSUME ReportedInv,
           UNCHANGED << call, phase, attempt, index, response, rec, sink, wire, result >>
    PROVE  ReportedInv'
  <1>1. AccountInv'
    BY ZenonT(30) DEF ReportedInv, AccountInv, Recorded
  <1>2. ScopeInv'
    BY ZenonT(30) DEF ReportedInv, ScopeInv
  <1>3. SinkInv'
    BY ZenonT(30) DEF ReportedInv, SinkInv, Justified
  <1>4. OutcomeInv'
    BY ZenonT(30) DEF ReportedInv, OutcomeInv
  <1> QED BY <1>1, <1>2, <1>3, <1>4 DEF ReportedInv

(* open_stream takes over a call that has just been answered.              *)
LEMMA OpenReports ==
    ASSUME CallInv, ReportedInv, MomentInv, Open
    PROVE  ReportedInv' /\ MomentInv'
  <1>1. /\ phase = "open" /\ call.streaming /\ stage = "closed" /\ stage' = "reading"
        /\ UNCHANGED << call, phase, attempt, index, key, response, delay, rec, sink,
                        wire, result, kind, frames, body_started, seen >>
    BY DEF Open, HandedOver, engineVars
  <1>2. ReportedInv'
    BY <1>1, ReportUntouched, ZenonT(30)
  <1>3. wire # << >> /\ result = "pending" /\ ~ rec.finished
    <2>1. wire # << >>
      BY <1>1, InTry DEF Trying, CallInv, ReportedInv
    <2> QED BY <1>1, <2>1 DEF MomentInv, Live, ReportedInv, OutcomeInv
  <1>4. /\ frames = 0 /\ ~ rec.ttft /\ seen = "nothing" /\ ~ Whole
        /\ (body_started <=> frames > 0)
    BY <1>1 DEF MomentInv, Whole
  <1>5. ~ Whole'
    BY <1>1, <1>4 DEF Whole
  <1>6. frames \in Nat
    BY DEF MomentInv
  <1>7. /\ frames' = 0 /\ frames' \in Nat /\ (body_started' <=> frames' > 0)
        /\ stage' = "reading" /\ seen' = "nothing" /\ ~ rec'.finished /\ ~ rec'.ttft
        /\ result' = "pending" /\ call'.streaming /\ wire' # << >> /\ phase' = "open"
    BY <1>1, <1>3, <1>4, <1>6
  <1>8. MomentInv'
    BY <1>5, <1>7 DEF MomentInv, Quit
  <1> QED BY <1>2, <1>8

(* The engine takes no step once it has handed its stream over.            *)
LEMMA EngineIsOver ==
    ASSUME phase \in {"open", "done"}, call.streaming
    PROVE  ~ EngineNext
  BY ZenonT(30) DEF EngineNext, Local, Start, BeginSend, Wake, DeadlineElapses, Environment,
         ReceiveHeaders, DrainCompletes, BodyCompletes, TransportBreaks, CallerDrops,
         SendFails, DrainFails, BodyFails, Suspended, Buffered

(* Every step of a streaming call keeps the report true.                   *)
LEMMA ReportStep ==
    StreamReportInv /\ [StreamNext]_vars => StreamReportInv'
  <1> SUFFICES ASSUME StreamReportInv, [StreamNext]_vars
               PROVE  StreamReportInv'
    OBVIOUS
  <1>1. CallInv /\ ReportedInv /\ MomentInv /\ CallInv'
    BY CallStep DEF StreamReportInv
  <1> SUFFICES ReportedInv' /\ MomentInv'
    BY <1>1 DEF StreamReportInv
  <1>2. CASE EngineNext /\ UNCHANGED streamVars
    <2>1. stage = "closed"
      BY <1>1, <1>2, EngineIsOver DEF MomentInv
    <2>2. Live /\ ~ rec.ttft
      BY <1>1, <2>1 DEF MomentInv
    <2>3. ReportedInv' /\ Live' /\ ~ rec'.ttft
      BY <1>1, <1>2, <2>2, EngineReports DEF CallInv
    <2>4. ~ Whole'
      BY <1>1, <1>2, <2>1 DEF MomentInv, Whole, streamVars
    <2> QED BY <1>1, <1>2, <2>1, <2>3, <2>4 DEF MomentInv, Quit, streamVars
  <1>3. CASE UNCHANGED vars
    <2>1. UNCHANGED << call, phase, attempt, index, key, response, delay, rec, sink,
                       wire, result, kind, stage, frames, body_started, seen >>
      BY <1>3 DEF vars, engineVars, streamVars
    <2>2. ReportedInv'
      BY <1>1, <2>1, ReportUntouched, ZenonT(30)
    <2>3. MomentInv'
      BY <1>1, <2>1 DEF MomentInv, Live, Whole, Broke, Quit
    <2> QED BY <2>2, <2>3
  <1>4. CASE Open
    BY <1>1, <1>4, OpenReports
  <1>5. ASSUME NEW frame \in FrameKinds, ReceiveFrame(frame)
        PROVE  ReportedInv' /\ MomentInv'
    BY <1>1, <1>5, FrameReports
  <1>6. CASE PollPastTerminal \/ EndOfBody \/ FramingError
    BY <1>1, <1>6, CompletionReports
  <1>7. CASE IdleTimeout
    <2>1. /\ Deadline \in FailureType /\ WireFails(Deadline)
          /\ Deadline.timed_out => Deadline.class = "read_timeout"
      BY <1>7 DEF IdleTimeout, Deadline, FailureType, ErrorClasses
    <2> HIDE DEF Deadline
    <2> QED BY <1>1, <2>1, WireFailureReports
  <1>8. CASE WireBreaks
    <2>1. PICK f \in TransportFailures : f.class \notin ConnectClasses /\ WireFails(f)
      BY <1>8 DEF WireBreaks
    <2>2. f \in FailureType /\ (f.timed_out => f.class = "read_timeout")
      BY <2>1, EngineAssumption DEF FailureType, ConnectClasses
    <2> QED BY <1>1, <2>1, <2>2, WireFailureReports
  <1>9. CASE Release
    BY <1>1, <1>9, ReleaseReports
  <1> QED BY <1>2, <1>3, <1>4, <1>5, <1>6, <1>7, <1>8, <1>9
          DEF StreamNext, StreamSteps, StreamTerminated

(* A call starts with nothing sent, recorded or reported.                  *)
LEMMA InitStreamReports ==
    StreamInit => StreamReportInv
  <1> SUFFICES ASSUME StreamInit PROVE StreamReportInv
    OBVIOUS
  <1>1. CallInv /\ ReportedInv /\ Live
    BY InitCallInv, InitReports DEF StreamInit
  <1>2. ~ rec.ttft
    BY DEF StreamInit, Init, NewRecorder
  <1>3. MomentInv
    BY <1>1, <1>2 DEF StreamInit, MomentInv, Whole, Quit
  <1> QED BY <1>1, <1>3 DEF StreamReportInv

(* The report stays true for ever.                                         *)
LEMMA StreamsKeepTheReport ==
    StreamSpec => []StreamReportInv
  BY InitStreamReports, ReportStep, PTL DEF StreamSpec

-----------------------------------------------------------------------------
(* RequestEvent has a row for the request, then one for each attempt.      *)
LEMMA Rows ==
    ASSUME NEW r, RecorderOK(r), NEW x
    PROVE  LET rows == RequestEvent(r, x).rows
               n == Len(r.attempts)
           IN  /\ Len(rows) = n + 1
               /\ rows[1] = RequestRow(r)
               /\ \A i \in 1 .. n : rows[i + 1] = AttemptRow(r.attempts[i])
  <1> DEFINE n == Len(r.attempts)
             A(i) == AttemptRow(r.attempts[i])
             q == RequestRow(r)
             S == {q} \cup {A(i) : i \in 1 .. n}
             t == [i \in 1 .. n |-> A(i)]
  <1>1. n \in Nat
    BY DEF RecorderOK, RecorderType
  <1>2. RequestEvent(r, x).rows = << q >> \o t
    BY DEF RequestEvent
  <1>3. q \in S /\ \A i \in 1 .. n : A(i) \in S
    OBVIOUS
  <1> HIDE DEF q, A, S, n
  <1>4. t \in Seq(S) /\ Len(t) = n /\ \A i \in 1 .. n : t[i] = A(i)
    BY <1>1, <1>3
  <1>5. << q >> \in Seq(S) /\ Len(<< q >>) = 1 /\ << q >>[1] = q
    BY <1>3
  <1> HIDE DEF t
  <1> DEFINE u == << q >> \o t
  <1>6. Len(u) = n + 1 /\ u[1] = q /\ \A i \in 1 .. n : u[i + 1] = t[i]
    BY <1>1, <1>4, <1>5
  <1> HIDE DEF u
  <1>7. /\ Len(u) = n + 1 /\ u[1] = q /\ \A i \in 1 .. n : u[i + 1] = A(i)
    BY <1>4, <1>6
  <1> QED BY <1>2, <1>7, ZenonT(30) DEF u, n, A, q

(* The event in the sink, and what the invariant says of it.               *)
LEMMA SinkHolds ==
    ASSUME StreamReportInv, NEW k \in DOMAIN sink
    PROVE  \E x \in BOOLEAN :
              /\ sink[k] = RequestEvent(rec, x) /\ Justified(x) /\ Len(sink) = 1
              /\ RecorderOK(rec) /\ rec.on /\ rec.finished
              /\ wire \in Seq(SendType) /\ wire # << >>
              /\ Accounts(rec, wire, index, Len(wire))
  <1>1. sink # << >>
    OBVIOUS
  <1>2. PICK x \in BOOLEAN : Justified(x) /\ sink = << RequestEvent(rec, x) >>
    BY <1>1 DEF StreamReportInv, ReportedInv, SinkInv
  <1>3. /\ rec.finished /\ rec.attempts # << >> /\ RecorderOK(rec)
        /\ wire \in Seq(SendType)
    BY <1>1 DEF StreamReportInv, ReportedInv, SinkInv, CallInv, TypeInv, WalkInv
  <1>4. phase # "waiting"
    BY <1>3 DEF StreamReportInv, CallInv, ReportInv
  <1>5. rec.on /\ Accounts(rec, wire, index, Len(wire))
    BY <1>3, <1>4 DEF StreamReportInv, ReportedInv, AccountInv, Held, Recorded
  <1>6. wire # << >>
    BY <1>3, <1>5 DEF RecorderOK, RecorderType, Accounts
  <1>7. k = 1 /\ Len(sink) = 1
    BY <1>2
  <1>8. sink[k] = RequestEvent(rec, x)
    BY <1>2, <1>7
  <1> QED BY <1>2, <1>3, <1>5, <1>6, <1>7, <1>8, ZenonT(30)

(* A call is reported at its end exactly when it is in scope and sent.     *)
LEMMA ReportedAtTheEnd ==
    ASSUME StreamReportInv, phase = "done"
    PROVE  sink # << >> <=> InScope /\ wire # << >>
  <1>1. ScopeInv /\ SinkInv /\ Held(rec, wire, index, Len(wire))
        /\ rec.attempts \in Seq(AttemptType) /\ wire \in Seq(SendType)
    BY DEF StreamReportInv, ReportedInv, AccountInv, Recorded, CallInv, TypeInv,
           WalkInv, RecorderOK, RecorderType
  <1>2. /\ rec.on => (rec.attempts = << >> <=> wire = << >>)
        /\ ~ rec.on => rec.attempts = << >>
    <2>1. rec.on => Len(rec.attempts) = Len(wire)
      BY <1>1, ZenonT(30) DEF Held, Accounts
    <2>2. ~ rec.on => rec.attempts = << >>
      BY <1>1, ZenonT(30) DEF Held
    <2>3. (rec.attempts = << >> <=> Len(rec.attempts) = 0) /\ (wire = << >> <=> Len(wire) = 0)
      BY <1>1
    <2> QED BY <2>1, <2>2, <2>3
  <1>3. ASSUME sink # << >> PROVE InScope /\ wire # << >>
    BY <1>1, <1>2, <1>3, ZenonT(30) DEF ScopeInv, SinkInv, InScope
  <1>4. ASSUME InScope, wire # << >> PROVE sink # << >>
    BY <1>1, <1>2, <1>4, ZenonT(30) DEF ScopeInv, SinkInv, InScope
  <1> QED BY <1>3, <1>4

(* The invariant gives the three statements.                               *)
LEMMA ReportIsTheWire ==
    StreamReportInv => ReportMatchesWire
  <1> SUFFICES ASSUME StreamReportInv PROVE ReportMatchesWire
    OBVIOUS
  <1>1. Len(sink) <= 1 /\ (sink # << >> <=> Len(sink) = 1)
    <2>1. CASE sink = << >>
      BY <2>1
    <2>2. CASE sink # << >>
      <3>1. PICK x \in BOOLEAN : sink = << RequestEvent(rec, x) >>
        BY <2>2 DEF StreamReportInv, ReportedInv, SinkInv
      <3> DEFINE e == RequestEvent(rec, x)
      <3> HIDE DEF e
      <3>2. Len(<< e >>) = 1
        OBVIOUS
      <3> QED BY <2>2, <3>1, <3>2 DEF e
    <2> QED BY <2>1, <2>2
  <1>2. phase = "done" => (Len(sink) = 1 <=> InScope /\ wire # << >>)
    BY <1>1, ReportedAtTheEnd
  <1>3. ASSUME NEW k \in DOMAIN sink
        PROVE  LET e == sink[k]
                   n == Len(wire)
               IN  /\ Len(e.attempts) = n /\ Len(e.rows) = n + 1
                   /\ \A i \in 1 .. n :
                         /\ e.attempts[i].host = wire[i].host
                         /\ e.attempts[i].http_status = wire[i].answer.status
                   /\ \A i \in 1 .. n :
                         e.attempts[i].moved <=>
                           (IF i < n THEN wire[i + 1].host ELSE index) # wire[i].host
                   /\ e.rows[1].attempts = n
                   /\ e.rows[1].failover_used = 1
                        <=> \E i \in 2 .. n + 1 : e.rows[i].failover_used = 1
    <2> DEFINE n == Len(wire)
    <2>1. PICK x \in BOOLEAN :
              /\ sink[k] = RequestEvent(rec, x) /\ RecorderOK(rec)
              /\ wire \in Seq(SendType) /\ Accounts(rec, wire, index, n)
      BY <1>3, SinkHolds
    <2> DEFINE e == RequestEvent(rec, x)
    <2>2. e.attempts = rec.attempts
      BY DEF RequestEvent
    <2>3. n \in Nat /\ Len(rec.attempts) = n
      BY <2>1 DEF Accounts
    <2>4. /\ Len(e.rows) = n + 1 /\ e.rows[1] = RequestRow(rec)
          /\ \A i \in 1 .. n : e.rows[i + 1] = AttemptRow(rec.attempts[i])
      BY <2>1, <2>3, Rows, ZenonT(30)
    <2>5. e.rows[1].attempts = n /\ (e.rows[1].failover_used = 1 <=> rec.failover_used)
      <3>1. /\ RequestRow(rec).attempts = Len(rec.attempts)
            /\ RequestRow(rec).failover_used = IF rec.failover_used THEN 1 ELSE 0
        BY ZenonT(30) DEF RequestRow
      <3>2. RequestRow(rec).failover_used = 1 <=> rec.failover_used
        BY <3>1
      <3> QED BY <2>3, <2>4, <3>1, <3>2, ZenonT(30)
    <2> HIDE DEF e
    <2>6. \A i \in 1 .. n : e.rows[i + 1].failover_used = 1 <=> rec.attempts[i].moved
      <3>1. \A a : AttemptRow(a).failover_used = IF a.moved THEN 1 ELSE 0
        BY ZenonT(30) DEF AttemptRow
      <3>2. \A a : AttemptRow(a).failover_used = 1 <=> a.moved
        BY <3>1
      <3> QED BY <2>4, <3>2, ZenonT(30)
    <2>7. (\E i \in 1 .. n : rec.attempts[i].moved)
            <=> \E i \in 2 .. n + 1 : e.rows[i].failover_used = 1
      <3>1. ASSUME NEW i \in 1 .. n, rec.attempts[i].moved
            PROVE  \E j \in 2 .. n + 1 : e.rows[j].failover_used = 1
        <4>1. i + 1 \in 2 .. n + 1
          BY <2>3
        <4> QED BY <2>6, <3>1, <4>1
      <3>2. ASSUME NEW j \in 2 .. n + 1, e.rows[j].failover_used = 1
            PROVE  \E i \in 1 .. n : rec.attempts[i].moved
        <4>1. j - 1 \in 1 .. n /\ (j - 1) + 1 = j
          BY <2>3
        <4> QED BY <2>6, <3>2, <4>1, ZenonT(30)
      <3> QED BY <3>1, <3>2
    <2>8. /\ \A i \in 1 .. n : /\ e.attempts[i].host = wire[i].host
                               /\ e.attempts[i].http_status = wire[i].answer.status
          /\ \A i \in 1 .. n : e.attempts[i].moved <=>
                (IF i < n THEN wire[i + 1].host ELSE index) # wire[i].host
      BY <2>1, <2>2, ZenonT(30) DEF Accounts, Onward
    <2>9. e.rows[1].failover_used = 1
            <=> \E i \in 2 .. n + 1 : e.rows[i].failover_used = 1
      BY <2>1, <2>5, <2>7, ZenonT(30) DEF Accounts
    <2>10. sink[k] = e /\ Len(e.attempts) = n
      BY <2>1, <2>2, <2>3, ZenonT(30) DEF e
    <2> QED BY <2>4, <2>5, <2>8, <2>9, <2>10, ZenonT(30)
  <1> QED BY <1>1, <1>2, <1>3, ZenonT(30) DEF ReportMatchesWire

(* The outcome a report gives is that of the last attempt, unless finish   *)
(* was told that the retries were exhausted.                               *)
LEMMA ReportedOutcome ==
    ASSUME NEW r, RecorderOK(r), r.attempts # << >>, NEW x \in BOOLEAN
    PROVE  LET e == RequestEvent(r, x)
               last == Last(r.attempts)
           IN  /\ e.attempts = r.attempts /\ e.ttft = r.ttft
               /\ e.final_http_status = last.http_status
               /\ last.outcome # "exhausted"
               /\ \/ e.final_outcome = last.outcome
                  \/ x /\ e.final_outcome = "exhausted"
  <1>1. /\ RequestEvent(r, x).attempts = r.attempts
        /\ RequestEvent(r, x).ttft = r.ttft
        /\ RequestEvent(r, x).final_http_status = Last(r.attempts).http_status
        /\ RequestEvent(r, x).final_outcome = FinalOutcome(r, x)
    BY ZenonT(30) DEF RequestEvent
  <1>2. Last(r.attempts).outcome \in Outcomes
    <2>1. r.attempts \in Seq(AttemptType) /\ Len(r.attempts) \in 1 .. Len(r.attempts)
      BY DEF RecorderOK, RecorderType
    <2>2. Last(r.attempts) \in AttemptType
      BY <2>1 DEF Last
    <2> QED BY <2>2 DEF AttemptType
  <1>3. FinalOutcome(r, x) = Last(r.attempts).outcome
          \/ (x /\ FinalOutcome(r, x) = "exhausted")
    BY ZenonT(30) DEF FinalOutcome
  <1> QED BY <1>1, <1>2, <1>3 DEF Outcomes

(* An event in the sink has the outcome that the caller got (finish).      *)
LEMMA ReportIsTheResult ==
    StreamReportInv => OutcomeMatchesResult
  <1> SUFFICES ASSUME StreamReportInv, NEW k \in DOMAIN sink, result # "pending"
               PROVE  LET o == sink[k].final_outcome
                      IN  /\ result = "ok" <=>
                               o = "ok" /\ sink[k].final_http_status \in 200 .. 299
                          /\ result = "dropped" <=> o = "aborted"
                          /\ o = "exhausted" => attempt = MaxRetries /\ attempt > 0
                          /\ o = "timeout" =>
                               result = "timeout" \/ sink[k].final_http_status # None
    BY ZenonT(30) DEF OutcomeMatchesResult
  <1>1. PICK x \in BOOLEAN :
            /\ sink[k] = RequestEvent(rec, x) /\ Justified(x) /\ RecorderOK(rec)
            /\ rec.on /\ wire \in Seq(SendType) /\ wire # << >>
            /\ Accounts(rec, wire, index, Len(wire))
    BY SinkHolds
  <1> DEFINE e == sink[k]
             last == Last(rec.attempts)
  <1>2. Tells(last, result)
    BY <1>1 DEF StreamReportInv, ReportedInv, OutcomeInv
  <1>3. rec.attempts # << >>
    BY <1>1 DEF Accounts
  <1>4. /\ e.final_http_status = last.http_status /\ last.outcome # "exhausted"
        /\ e.final_outcome = last.outcome \/ (x /\ e.final_outcome = "exhausted")
    BY <1>1, <1>3, ReportedOutcome, ZenonT(30)
  <1> HIDE DEF e, last
  <1>5. CASE e.final_outcome = last.outcome
    BY <1>2, <1>4, <1>5 DEF Tells, e
  <1>6. CASE x /\ e.final_outcome = "exhausted"
    <2>1. /\ attempt = MaxRetries /\ attempt > 0 /\ result # "ok" /\ result # "dropped"
      BY <1>1, <1>6 DEF Justified
    <2> QED BY <1>6, <2>1 DEF e
  <1> QED BY <1>4, <1>5, <1>6

(* An event in the sink names the moment its stream ended.                 *)
LEMMA ReportIsTheMoment ==
    StreamReportInv => OutcomeNamesItsMoment
  <1> SUFFICES ASSUME StreamReportInv, NEW k \in DOMAIN sink
               PROVE  LET e == sink[k]
                          last == e.attempts[Len(wire)]
                      IN  /\ seen = "wire_error" =>
                               /\ last.http_status \in 200 .. 299
                               /\ frames = 0 =>
                                    e.final_outcome \in {"transport_error", "timeout"}
                               /\ frames > 0 =>
                                    \/ e.final_outcome = "stream_broken"
                                    \/ /\ e.final_outcome = "timeout"
                                       /\ last.phase = "idle"
                                       /\ last.error_class = "stream_stalled"
                          /\ Whole => e.final_outcome = "ok"
                          /\ Quit => e.final_outcome = "aborted"
                          /\ stage # "closed" => (e.ttft <=> frames > 0)
    BY ZenonT(30) DEF OutcomeNamesItsMoment, Whole, Quit
  <1>1. PICK x \in BOOLEAN :
            /\ sink[k] = RequestEvent(rec, x) /\ Justified(x) /\ RecorderOK(rec)
            /\ rec.on /\ wire \in Seq(SendType) /\ wire # << >>
            /\ Accounts(rec, wire, index, Len(wire))
    BY SinkHolds
  <1> DEFINE e == sink[k]
             last == e.attempts[Len(wire)]
  <1>2. rec.attempts # << >>
    BY <1>1 DEF Accounts
  <1>3. /\ e.attempts = rec.attempts /\ e.ttft = rec.ttft
        /\ e.final_outcome = Last(rec.attempts).outcome
             \/ (x /\ e.final_outcome = "exhausted")
    BY <1>1, <1>2, ReportedOutcome, ZenonT(30)
  <1>4. last = Last(rec.attempts)
    BY <1>1, <1>3 DEF Accounts, Last
  <1> HIDE DEF e, last
  <1>5. CASE stage = "closed"
    BY <1>5 DEF StreamReportInv, MomentInv, Whole, Quit
  <1>6. CASE stage # "closed"
    <2>1. result = "pending" /\ (rec.ttft <=> frames > 0)
      BY <1>1, <1>6 DEF StreamReportInv, MomentInv
    <2>2. e.final_outcome = last.outcome
      BY <1>1, <1>3, <1>4, <2>1 DEF Justified
    <2>3. /\ seen = "wire_error" => Broke(last)
          /\ Whole => last.outcome = "ok"
          /\ Quit => last.outcome = "aborted"
      BY <1>1, <1>4 DEF StreamReportInv, MomentInv
    <2> QED BY <1>3, <2>1, <2>2, <2>3 DEF Broke, e, last
  <1> QED BY <1>5, <1>6, ZenonT(30)

(* A call in telemetry's scope that sent anything is reported exactly      *)
(* once, however it ended, and its report is the account of the wire: the  *)
(* hosts, the statuses, the moves and the counter rows (finish,            *)
(* store_attempt, on_moved), for any retry ceiling and any answers.        *)
THEOREM TheReportMatchesTheWire ==
    StreamSpec => []ReportMatchesWire
  BY StreamsKeepTheReport, ReportIsTheWire, PTL

(* The outcome reported is what the caller got.  For a call that returned  *)
(* or was dropped in the engine that is its result, and exhausted is       *)
(* reported only at the retry ceiling; for a call that was handed over as  *)
(* a stream it is how that stream ended for its consumer (conclude,        *)
(* finish, on_complete, on_wire_failure, Drop for RequestRecorder).        *)
THEOREM TheOutcomeMatchesTheResult ==
    StreamSpec => [](OutcomeMatchesResult /\ OutcomeNamesItsMoment)
  BY StreamsKeepTheReport, ReportIsTheResult, ReportIsTheMoment, PTL

(* The report of a stream names the moment it ended, for streams of any    *)
(* length and every order of frames, failures and drops (on_wire_failure,  *)
(* on_transport_error, on_complete).                                       *)
THEOREM TheOutcomeNamesItsMoment ==
    StreamSpec => []OutcomeNamesItsMoment
  BY StreamsKeepTheReport, ReportIsTheMoment, PTL
=============================================================================
