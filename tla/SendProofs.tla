----------------------------- MODULE SendProofs -----------------------------
(***************************************************************************)
(* What a send says and how long it waits, for every client, every set of  *)
(* answers and failures, any retry ceiling and any number of aliases,      *)
(* streams included: the x-tr-client header never disagrees with what the  *)
(* engine did, and a backoff never falls short of what the server asked    *)
(* for.                                                                    *)
(*                                                                         *)
(* The header is written from the recorder and the property reads the      *)
(* wire, so the invariant says that the recorder mirrors the wire: as many *)
(* records as answered sends, the last one describing the last answer, and *)
(* a failover flag that is up exactly when a send has changed hosts or the *)
(* next one will.                                                          *)
(***************************************************************************)
EXTENDS CallProofs

(* Record a names the answer of the send s the way a header would.         *)
Describes(a, s) ==
    /\ PreviousOutcome(a) = NameOf(s.answer)
    /\ PreviousClass(a) = s.answer.class
    /\ a.host = s.host

(* MovedBefore for a given history, so that it can be stated of the next.  *)
MovedIn(w, i) == \E j \in 1 .. i - 1 : w[j].host # w[j + 1].host

Between == {"ready", "sleeping"}
Within == {"waiting", "draining"}

MirrorsBetween ==
    /\ Len(rec.attempts) = Len(wire)
    /\ Len(wire) > 0 => Describes(Last(rec.attempts), wire[Len(wire)])
    /\ rec.failover_used
          <=> \/ MovedBefore(Len(wire))
              \/ Len(wire) > 0 /\ index # wire[Len(wire)].host

MirrorsWithin ==
    /\ rec.current_index = Len(wire) - 1
    /\ rec.current_host = index
    /\ rec.failover_used <=> MovedBefore(Len(wire))
    /\ Len(rec.attempts) = IF phase = "waiting" THEN Len(wire) - 1 ELSE Len(wire)
    /\ phase = "draining" => Describes(Last(rec.attempts), wire[Len(wire)])

RecordInv ==
    phase \in Between \cup Within =>
        /\ rec.on \/ ~ InFlight(rec)
        /\ rec.on /\ phase \in Between => MirrorsBetween
        /\ rec.on /\ phase \in Within => MirrorsWithin

HeaderInv == RecordInv /\ HeaderIsTruthful

-----------------------------------------------------------------------------
(* store_attempt leaves the new record last, whether it opens the attempt  *)
(* or replaces its record.                                                 *)
LEMMA StoredLast ==
    ASSUME NEW r, RecorderOK(r), InFlight(r), NEW record \in AttemptType,
           Len(r.attempts) \in {r.current_index, r.current_index + 1}
    PROVE  LET s == StoreAttempt(r, record)
           IN  /\ Len(s.attempts) = r.current_index + 1
               /\ Last(s.attempts) = record
               /\ s.on = r.on /\ s.failover_used = r.failover_used
               /\ s.current_index = r.current_index
               /\ s.current_host = r.current_host
  <1> DEFINE s == StoreAttempt(r, record)
  <1>1. /\ r.attempts \in Seq(AttemptType) /\ r.current_index \in Nat
        /\ Len(r.attempts) \in Nat
    BY DEF RecorderOK, RecorderType, InFlight, None
  <1>2. /\ s.on = r.on /\ s.failover_used = r.failover_used
        /\ s.current_index = r.current_index /\ s.current_host = r.current_host
    BY DEF StoreAttempt, RecorderOK, RecorderType
  <1>3. CASE Opened(r)
    <2> DEFINE t == [r.attempts EXCEPT ![r.current_index + 1] = record]
    <2>1. s.attempts = t
      BY <1>3 DEF StoreAttempt, RecorderOK, RecorderType
    <2>2. Len(t) = r.current_index + 1 /\ t[r.current_index + 1] = record
      BY <1>1, <1>3 DEF Opened
    <2> HIDE DEF t
    <2> QED BY <1>2, <2>1, <2>2 DEF Last
  <1>4. CASE ~ Opened(r)
    <2> DEFINE t == Append(r.attempts, record)
    <2>1. s.attempts = t
      BY <1>4 DEF StoreAttempt, RecorderOK, RecorderType
    <2>2. Len(r.attempts) = r.current_index
      BY <1>1, <1>4 DEF Opened
    <2>3. Len(t) = r.current_index + 1 /\ t[r.current_index + 1] = record
      BY <1>1, <2>2
    <2> HIDE DEF t
    <2> QED BY <1>2, <2>1, <2>3 DEF Last
  <1> QED BY <1>3, <1>4

(* on_response describes the answer.                                       *)
LEMMA ResponseDescribed ==
    ASSUME NEW r, RecorderOK(r), InFlight(r), NEW resp \in Responses,
           Len(r.attempts) \in {r.current_index, r.current_index + 1},
           NEW s, s.host = r.current_host, s.answer = Answered(resp)
    PROVE  LET q == OnResponse(r, resp)
           IN  /\ Len(q.attempts) = r.current_index + 1
               /\ Describes(Last(q.attempts), s)
               /\ q.on = r.on /\ q.failover_used = r.failover_used
               /\ q.current_index = r.current_index
               /\ q.current_host = r.current_host
  <1> DEFINE outcome == IF resp.status < 400 THEN "ok" ELSE "http_error"
             record == [host |-> r.current_host,
                        outcome |-> outcome,
                        http_status |-> resp.status,
                        error_class |-> "none",
                        should_retry |-> resp.verdict,
                        moved |-> FALSE,
                        phase |-> "none"]
  <1>1. resp \in ResponseType /\ resp.status \in Nat
    BY EngineAssumption DEF ResponseType
  <1>2. record \in AttemptType
    BY <1>1 DEF AttemptType, RecorderOK, Outcomes, Phases, ResponseType
  <1>3. OnResponse(r, resp) = StoreAttempt(r, record)
    BY DEF OnResponse
  <1>4. /\ s.answer.kind = "http" /\ s.answer.status = resp.status
        /\ s.answer.class = "none"
    BY DEF Answered, NoAnswer
  <1>5. /\ record.host = r.current_host /\ record.outcome = outcome
        /\ record.error_class = "none"
    OBVIOUS
  <1>6. NameOf(s.answer) = IF resp.status < 400 THEN "none" ELSE "http_error"
    BY <1>1, <1>4 DEF NameOf
  <1>7. Describes(record, s)
    BY <1>4, <1>5, <1>6 DEF Describes, PreviousOutcome, PreviousClass
  <1> HIDE DEF record
  <1> QED BY <1>2, <1>3, <1>7, StoredLast

(* on_transport_error describes a failure that came before any event of    *)
(* the body.                                                               *)
LEMMA FailureDescribed ==
    ASSUME NEW r, RecorderOK(r), InFlight(r), NEW f \in FailureType,
           NEW opened \in BOOLEAN,
           Len(r.attempts) \in {r.current_index, r.current_index + 1},
           NEW s, s.host = r.current_host,
           s.answer.kind \in {"failure", "body_failure"},
           s.answer.class = f.class, s.answer.timed_out = f.timed_out
    PROVE  LET q == OnTransportError(r, f, opened, FALSE)
           IN  /\ Len(q.attempts) = r.current_index + 1
               /\ Describes(Last(q.attempts), s)
               /\ q.on = r.on /\ q.failover_used = r.failover_used
               /\ q.current_index = r.current_index
               /\ q.current_host = r.current_host
  <1> DEFINE old == r.attempts[r.current_index + 1]
             status == IF Opened(r) /\ opened THEN old.http_status ELSE None
             verdict == IF Opened(r) THEN old.should_retry ELSE "absent"
             record == [host |-> r.current_host,
                        outcome |-> FailureOutcome(f.timed_out, FALSE),
                        http_status |-> status,
                        error_class |-> f.class,
                        should_retry |-> verdict,
                        moved |-> FALSE,
                        phase |-> PhaseForClass(f.class)]
  <1>1. Opened(r) => old \in AttemptType
    BY DEF Opened, RecorderOK, RecorderType, InFlight, None
  <1>2. status \in Nat \cup {None} /\ verdict \in Verdicts
    BY <1>1 DEF AttemptType, Verdicts
  <1>3. /\ PhaseForClass(f.class) \in Phases
        /\ FailureOutcome(f.timed_out, FALSE)
              = IF f.timed_out THEN "timeout" ELSE "transport_error"
    BY DEF PhaseForClass, Phases, FailureOutcome
  <1>4. r.current_host \in Nat /\ f.class \in ErrorClasses
    BY DEF RecorderOK, FailureType
  <1>5. OnTransportError(r, f, opened, FALSE) = StoreAttempt(r, record)
    BY DEF OnTransportError
  <1> HIDE DEF status, verdict, old
  <1>6. record \in AttemptType
    BY <1>2, <1>3, <1>4, ZenonT(30) DEF AttemptType, Outcomes
  <1>7. /\ record.host = r.current_host /\ record.error_class = f.class
        /\ record.outcome = IF f.timed_out THEN "timeout" ELSE "transport_error"
    BY <1>3, ZenonT(30)
  <1>8. NameOf(s.answer) = IF f.timed_out THEN "timeout" ELSE "transport_error"
    BY DEF NameOf
  <1>9. Describes(record, s)
    BY <1>7, <1>8, ZenonT(30) DEF Describes, PreviousOutcome, PreviousClass
  <1> HIDE DEF record
  <1> QED BY <1>5, <1>6, <1>9, StoredLast, ZenonT(30)

-----------------------------------------------------------------------------
(* What one send's header says of the sends before it.                     *)
TruthfulAt(i) ==
    wire[i].header # NoHeader =>
        /\ wire[i].header.a = i - 1
        /\ i > 1 => /\ wire[i].header.po = NameOf(wire[i - 1].answer)
                    /\ wire[i].header.ph = wire[i - 1].host
                    /\ wire[i].header.fo = MovedBefore(i)
                    /\ wire[i].header.pc = wire[i - 1].answer.class

(* Sends that keep their hosts keep the moves between them.                *)
LEMMA MovesKept ==
    ASSUME NEW n \in Nat, \A j \in 1 .. n : wire'[j].host = wire[j].host,
           NEW i \in 0 .. n
    PROVE  MovedBefore(i)' = MovedBefore(i)
  <1>1. \A j \in 1 .. i - 1 : j \in 1 .. n /\ j + 1 \in 1 .. n
    OBVIOUS
  <1>2. \A j \in 1 .. i - 1 :
           wire'[j].host # wire'[j + 1].host <=> wire[j].host # wire[j + 1].host
    BY <1>1
  <1> QED BY <1>2 DEF MovedBefore

(* A step that leaves the history alone, or only annotates its last send,  *)
(* leaves every header as truthful as it was.                              *)
LEMMA TruthKept ==
    ASSUME HeaderIsTruthful, Len(wire) \in Nat, Len(wire') = Len(wire),
           \A i \in 1 .. Len(wire) - 1 : wire'[i] = wire[i],
           \A i \in 1 .. Len(wire) : /\ wire'[i].host = wire[i].host
                                     /\ wire'[i].header = wire[i].header
    PROVE  HeaderIsTruthful'
  <1> SUFFICES ASSUME NEW i \in 1 .. Len(wire) PROVE TruthfulAt(i)'
    BY DEF HeaderIsTruthful, TruthfulAt, Sends
  <1>1. TruthfulAt(i)
    BY DEF HeaderIsTruthful, TruthfulAt, Sends
  <1>2. MovedBefore(i)' = MovedBefore(i)
    <2>1. i \in 0 .. Len(wire)
      OBVIOUS
    <2> QED BY <2>1, MovesKept, ZenonT(30)
  <1>3. i > 1 => wire'[i - 1] = wire[i - 1]
    OBVIOUS
  <1> QED BY <1>1, <1>2, <1>3 DEF TruthfulAt

(* Annotating the last send keeps the truth of the headers and the moves.  *)
LEMMA NoteTruthful ==
    ASSUME wire \in Seq(SendType), Len(wire) > 0, NEW a \in AnswerType, Note(a),
           HeaderIsTruthful
    PROVE  /\ HeaderIsTruthful'
           /\ MovedBefore(Len(wire))' = MovedBefore(Len(wire))
  <1> DEFINE n == Len(wire)
  <1>1. /\ Len(wire') = n /\ n \in Nat
        /\ \A i \in 1 .. n - 1 : wire'[i] = wire[i]
        /\ wire'[n].host = wire[n].host
    BY NoteOK
  <1>2. wire'[n].header = wire[n].header
    <2> DEFINE send == [wire[n] EXCEPT !.answer = a]
    <2>1. wire[n] \in SendType /\ n \in 1 .. Len(wire)
      OBVIOUS
    <2>2. send.header = wire[n].header
      BY <2>1 DEF SendType
    <2>3. wire' = [wire EXCEPT ![n] = send]
      BY DEF Note
    <2> HIDE DEF send
    <2> QED BY <2>1, <2>2, <2>3
  <1>3. \A i \in 1 .. n : /\ wire'[i].host = wire[i].host
                          /\ wire'[i].header = wire[i].header
    BY <1>1, <1>2
  <1>4. n \in 0 .. n
    BY <1>1
  <1>5. HeaderIsTruthful'
    BY <1>1, <1>3, TruthKept
  <1>6. MovedBefore(n)' = MovedBefore(n)
    BY <1>1, <1>3, <1>4, MovesKept, ZenonT(30)
  <1> QED BY <1>1, <1>5, <1>6

(* The end of an attempt keeps the mirror: if the call goes on, the cursor *)
(* and the failover flag move together.                                    *)
LEMMA ConcludeMirrors ==
    ASSUME NEW r, RecorderOK(r), NEW d, Conclude(r, d), index \in Nat,
           wire' \in Seq(SendType), Len(wire') > 0,
           wire'[Len(wire')].host = index,
           r.on \/ ~ InFlight(r),
           r.on => /\ Len(r.attempts) = Len(wire')
                   /\ Describes(Last(r.attempts), wire'[Len(wire')])
                   /\ r.failover_used <=> MovedBefore(Len(wire))'
    PROVE  RecordInv'
  <1>1. CASE phase' = "done"
    BY <1>1 DEF RecordInv, Between, Within
  <1>2. CASE /\ phase' = "sleeping"
             /\ index' = index /\ rec' = r
    BY <1>2 DEF RecordInv, Between, Within, MirrorsBetween
  <1>3. CASE /\ phase' = "sleeping"
             /\ index' = index + 1 /\ rec' = OnMoved(r)
    <2>1. /\ rec'.on = r.on /\ rec'.current_index = r.current_index
      BY <1>3 DEF OnMoved, RecorderOK, RecorderType
    <2>2. CASE ~ r.on
      BY <1>3, <2>1, <2>2 DEF RecordInv, InFlight, Between, Within
    <2>3. CASE r.on
      <3> DEFINE n == Len(r.attempts)
                 last == [r.attempts[n] EXCEPT !.moved = TRUE]
                 t == [r.attempts EXCEPT ![n] = last]
      <3>1. /\ r.attempts \in Seq(AttemptType) /\ n \in Nat /\ n > 0
            /\ r.attempts # << >>
        BY <2>3 DEF RecorderOK, RecorderType
      <3>2. r.attempts[n] \in AttemptType /\ n \in 1 .. n
        BY <3>1
      <3>3. /\ last.host = r.attempts[n].host /\ last.outcome = r.attempts[n].outcome
            /\ last.error_class = r.attempts[n].error_class
        BY <3>2 DEF AttemptType
      <3>4. rec'.attempts = t /\ rec'.failover_used = TRUE
        BY <1>3, <3>1 DEF OnMoved, RecorderOK, RecorderType
      <3> HIDE DEF last
      <3>5. Len(t) = n /\ t[n] = last
        BY <3>1, <3>2
      <3> HIDE DEF t
      <3>6. Describes(last, wire'[Len(wire')])
        BY <2>3, <3>3 DEF Describes, PreviousOutcome, PreviousClass, Last
      <3>7. MirrorsBetween'
        <4>1. Len(rec'.attempts) = Len(wire') /\ Last(rec'.attempts) = last
          BY <2>3, <3>4, <3>5 DEF Last
        <4>2. index' # wire'[Len(wire')].host
          BY <1>3
        <4> QED BY <3>4, <3>6, <4>1, <4>2 DEF MirrorsBetween
      <3> QED BY <1>3, <2>1, <2>3, <3>7 DEF RecordInv, Between, Within
    <2> QED BY <2>2, <2>3
  <1> QED BY <1>1, <1>2, <1>3 DEF Conclude, EndWith

-----------------------------------------------------------------------------
(* begin_attempt and header_value, read at the moment of the send, tell    *)
(* the truth about the sends so far, and the mirror holds within the       *)
(* attempt.                                                                *)
LEMMA SendMirrors ==
    ASSUME TypeInv, WalkInv, HeaderInv, BeginSend, Assembles(call)
    PROVE  HeaderInv'
  <1> DEFINE n == Len(wire)
             r == BeginAttempt(rec, index)
             h == HeaderValue(r)
             send == [host |-> index, key |-> WireKey, header |-> h,
                      answer |-> NoAnswer]
  <1>1. /\ phase = "ready" /\ phase' = "waiting" /\ wire' = Append(wire, send)
        /\ rec' = r /\ index' = index
    BY DEF BeginSend
  <1>2. /\ wire \in Seq(SendType) /\ n \in Nat /\ RecorderOK(rec)
        /\ index \in Nat
    BY EngineAssumption, CandidatesOK DEF TypeInv, WalkInv
  <1>3. /\ r.on = rec.on /\ r.attempts = rec.attempts /\ r.custom = rec.custom
        /\ r.failover_used = rec.failover_used
        /\ rec.on => r.current_index = Len(rec.attempts) /\ r.current_host = index
        /\ ~ rec.on => r = rec
    BY <1>2 DEF BeginAttempt, RecorderOK, RecorderType
  <1>4. rec.on \/ ~ InFlight(rec)
    BY <1>1 DEF HeaderInv, RecordInv, Between, Within
  <1>5. rec.on => MirrorsBetween
    BY <1>1 DEF HeaderInv, RecordInv, Between, Within
  <1>6. send.host = index /\ send.header = h
    OBVIOUS
  <1>7. rec.failover_used \in BOOLEAN
    BY <1>2 DEF RecorderOK, RecorderType
  <1> HIDE DEF send, h, r
  <1>8. /\ Len(wire') = n + 1 /\ wire'[n + 1] = send
        /\ \A i \in 1 .. n : wire'[i] = wire[i]
    BY <1>1, <1>2
  <1>9. \A i \in 0 .. n : MovedBefore(i)' = MovedBefore(i)
    BY <1>2, <1>8, MovesKept
  <1>10. MovedIn(wire', n + 1) <=> MovedBefore(n) \/ (n > 0 /\ index # wire[n].host)
    <2>1. MovedIn(wire', n + 1) <=> \E j \in 1 .. n : wire'[j].host # wire'[j + 1].host
      BY <1>2 DEF MovedIn
    <2>2. \A j \in 1 .. n - 1 : wire'[j] = wire[j] /\ wire'[j + 1] = wire[j + 1]
      BY <1>2, <1>8
    <2>3. n > 0 => wire'[n] = wire[n] /\ wire'[n + 1].host = index
      BY <1>2, <1>6, <1>8
    <2>4. MovedBefore(n) <=> \E j \in 1 .. n - 1 : wire'[j].host # wire'[j + 1].host
      BY <2>2 DEF MovedBefore
    <2>5. CASE n = 0
      <3>1. 1 .. n = {} /\ 1 .. n - 1 = {}
        BY <2>5
      <3> QED BY <2>1, <2>4, <2>5, <3>1
    <2>6. CASE n > 0
      <3>1. \A j \in 1 .. n : j \in 1 .. n - 1 \/ j = n
        BY <1>2
      <3> QED BY <1>2, <2>1, <2>3, <2>4, <2>6, <3>1
    <2> QED BY <1>2, <2>5, <2>6
  <1>11. rec.on => (rec.failover_used <=> MovedIn(wire', n + 1))
    BY <1>5, <1>10 DEF MirrorsBetween
  <1>12. RecordInv'
    <2>1. CASE ~ rec.on
      BY <1>1, <1>3, <1>4, <2>1 DEF RecordInv, Between, Within, InFlight
    <2>2. CASE rec.on
      <3>1. Len(rec.attempts) = n
        BY <1>5, <2>2 DEF MirrorsBetween
      <3>2. MovedBefore(Len(wire))' <=> MovedIn(wire', n + 1)
        BY <1>8 DEF MovedBefore, MovedIn
      <3>3. rec'.failover_used <=> MovedBefore(Len(wire))'
        BY <1>1, <1>3, <1>11, <2>2, <3>2
      <3>4. /\ rec'.current_index = Len(wire') - 1 /\ rec'.current_host = index'
            /\ Len(rec'.attempts) = Len(wire') - 1
        BY <1>1, <1>2, <1>3, <1>8, <2>2, <3>1
      <3>5. MirrorsWithin'
        BY <1>1, <3>3, <3>4 DEF MirrorsWithin
      <3> QED BY <1>1, <1>3, <2>2, <3>5 DEF RecordInv, Between, Within
    <2> QED BY <2>1, <2>2
  <1>13. ASSUME h # NoHeader
         PROVE  /\ h.a = n
                /\ n > 0 => /\ h.po = NameOf(wire[n].answer)
                            /\ h.ph = wire[n].host
                            /\ h.fo = rec.failover_used
                            /\ h.pc = wire[n].answer.class
    <2>1. InFlight(r) /\ ~ (r.current_index > MaxHeaderIndex \/ r.custom)
      BY <1>13 DEF HeaderValue, h
    <2>2. rec.on
      BY <1>3, <1>4, <2>1
    <2>3. r.current_index = n
      BY <1>3, <1>5, <2>2 DEF MirrorsBetween
    <2>4. CASE n = 0
      BY <2>1, <2>3, <2>4 DEF HeaderValue, NoHeader, h
    <2>5. CASE n > 0
      <3>1. h = [a |-> n,
                 po |-> PreviousOutcome(Last(rec.attempts)),
                 pc |-> PreviousClass(Last(rec.attempts)),
                 ph |-> Last(rec.attempts).host,
                 fo |-> rec.failover_used]
        BY <1>2, <1>3, <2>1, <2>3, <2>5 DEF HeaderValue, h
      <3>2. Describes(Last(rec.attempts), wire[n])
        BY <1>5, <2>2, <2>5 DEF MirrorsBetween
      <3> QED BY <3>1, <3>2 DEF Describes
    <2> QED BY <1>2, <2>4, <2>5
  <1>14. h # NoHeader => rec.on
    <2>1. h # NoHeader => InFlight(r)
      BY DEF HeaderValue, h
    <2> QED BY <1>3, <1>4, <2>1
  <1>15. ASSUME NEW i \in 1 .. Len(wire') PROVE TruthfulAt(i)'
    <2>1. CASE i \in 1 .. n
      <3>1. TruthfulAt(i)
        BY <2>1 DEF HeaderInv, HeaderIsTruthful, TruthfulAt, Sends
      <3>2. wire'[i] = wire[i] /\ (i > 1 => wire'[i - 1] = wire[i - 1])
        BY <1>2, <1>8, <2>1
      <3>3. MovedBefore(i)' = MovedBefore(i)
        BY <1>2, <1>9, <2>1
      <3> QED BY <3>1, <3>2, <3>3 DEF TruthfulAt
    <2>2. CASE i = n + 1
      <3>1. wire'[i].header = h /\ i - 1 = n
        BY <1>2, <1>6, <1>8, <2>2
      <3>2. i > 1 => wire'[i - 1] = wire[n] /\ n > 0
        BY <1>2, <1>8, <2>2
      <3>3. (h # NoHeader) => rec.failover_used = MovedBefore(i)'
        <4>1. MovedBefore(i)' \in BOOLEAN
          BY DEF MovedBefore
        <4>2. (h # NoHeader) => (rec.failover_used <=> MovedBefore(i)')
          BY <1>11, <1>14, <2>2 DEF MovedBefore, MovedIn
        <4> QED BY <1>7, <4>1, <4>2
      <3>4. CASE h = NoHeader
        BY <3>1, <3>4 DEF TruthfulAt
      <3>5. CASE h # NoHeader
        <4>1. /\ h.a = i - 1
              /\ i > 1 => /\ h.po = NameOf(wire'[i - 1].answer)
                          /\ h.ph = wire'[i - 1].host
                          /\ h.pc = wire'[i - 1].answer.class
                          /\ h.fo = rec.failover_used
          BY <1>13, <3>1, <3>2, <3>5
        <4>2. rec.failover_used = MovedBefore(i)'
          BY <3>3, <3>5
        <4> QED BY <3>1, <4>1, <4>2 DEF TruthfulAt
      <3> QED BY <3>4, <3>5
    <2> QED BY <1>2, <1>8, <2>1, <2>2
  <1> QED BY <1>12, <1>15 DEF HeaderInv, HeaderIsTruthful, TruthfulAt, Sends

-----------------------------------------------------------------------------
(* Within an attempt, what the recorder and the history agree on.          *)
LEMMA InsideAttempt ==
    ASSUME TypeInv, WalkInv, HeaderInv, phase \in Within
    PROVE  /\ wire \in Seq(SendType) /\ Len(wire) \in Nat /\ Len(wire) > 0
           /\ RecorderOK(rec) /\ index \in Nat
           /\ wire[Len(wire)].host = index
           /\ HeaderIsTruthful
           /\ rec.on \/ ~ InFlight(rec)
           /\ rec.on => /\ InFlight(rec)
                        /\ MirrorsWithin
                        /\ Len(rec.attempts)
                              \in {rec.current_index, rec.current_index + 1}
  <1>1. /\ wire \in Seq(SendType) /\ Len(wire) \in Nat /\ RecorderOK(rec)
        /\ index \in Nat /\ attempt \in Nat
    BY EngineAssumption, CandidatesOK DEF TypeInv, WalkInv
  <1>2. Len(wire) = attempt + 1
    BY DEF WalkInv, SendsCounted, Trying, Within
  <1>3. wire[Len(wire)].host = index
    BY <1>1, <1>2 DEF WalkInv, LastSend, Trying, Within
  <1>4. /\ rec.on \/ ~ InFlight(rec)
        /\ rec.on => MirrorsWithin
    BY DEF HeaderInv, RecordInv
  <1>5. rec.on => /\ InFlight(rec)
                  /\ Len(rec.attempts) \in {rec.current_index, rec.current_index + 1}
    <2> SUFFICES ASSUME rec.on
                 PROVE  /\ InFlight(rec)
                        /\ Len(rec.attempts)
                              \in {rec.current_index, rec.current_index + 1}
      OBVIOUS
    <2>1. rec.current_index = Len(wire) - 1
      BY <1>4 DEF MirrorsWithin
    <2>2. Len(rec.attempts) \in {Len(wire) - 1, Len(wire)}
      BY <1>4 DEF MirrorsWithin
    <2> QED BY <1>1, <1>2, <2>1, <2>2 DEF InFlight, None
  <1> QED BY <1>1, <1>2, <1>3, <1>4, <1>5 DEF HeaderInv

(* A failure within an attempt is noted in the history and recorded the    *)
(* same way.                                                               *)
LEMMA FailureMirrors ==
    ASSUME TypeInv, WalkInv, HeaderInv, phase \in Within, NEW f \in FailureType,
           NEW opened \in BOOLEAN, NEW a \in AnswerType, Note(a),
           a.kind \in {"failure", "body_failure"},
           a.class = f.class, a.timed_out = f.timed_out
    PROVE  LET q == OnTransportError(rec, f, opened, FALSE)
           IN  /\ HeaderIsTruthful'
               /\ RecorderOK(q) /\ index \in Nat
               /\ wire' \in Seq(SendType) /\ Len(wire') > 0
               /\ wire'[Len(wire')].host = index
               /\ q.on \/ ~ InFlight(q)
               /\ q.on => /\ Len(q.attempts) = Len(wire')
                          /\ Describes(Last(q.attempts), wire'[Len(wire')])
                          /\ q.failover_used <=> MovedBefore(Len(wire))'
  <1> DEFINE q == OnTransportError(rec, f, opened, FALSE)
             s == wire'[Len(wire)]
  <1>1. /\ wire \in Seq(SendType) /\ Len(wire) \in Nat /\ Len(wire) > 0
        /\ RecorderOK(rec) /\ index \in Nat /\ wire[Len(wire)].host = index
        /\ HeaderIsTruthful
        /\ rec.on \/ ~ InFlight(rec)
        /\ rec.on => /\ InFlight(rec) /\ MirrorsWithin
                     /\ Len(rec.attempts) \in {rec.current_index, rec.current_index + 1}
    BY InsideAttempt
  <1>2. /\ wire' \in Seq(SendType) /\ Len(wire') = Len(wire)
        /\ s.answer = a /\ s.host = wire[Len(wire)].host
    BY <1>1, NoteOK
  <1>3. HeaderIsTruthful' /\ MovedBefore(Len(wire))' = MovedBefore(Len(wire))
    BY <1>1, NoteTruthful
  <1>4. RecorderOK(q)
    BY <1>1, OnTransportErrorOK, ZenonT(30)
  <1>5. CASE ~ rec.on
    <2>1. q = rec
      BY <1>1, <1>5 DEF OnTransportError
    <2> QED BY <1>1, <1>2, <1>3, <1>4, <1>5, <2>1, ZenonT(30)
  <1>6. CASE rec.on
    <2>1. /\ rec.current_index = Len(wire) - 1 /\ rec.current_host = index
          /\ rec.failover_used <=> MovedBefore(Len(wire))
      BY <1>1, <1>6 DEF MirrorsWithin
    <2>2. s.host = rec.current_host
      BY <1>1, <1>2, <2>1
    <2> HIDE DEF s
    <2>3. /\ s.answer.kind \in {"failure", "body_failure"}
          /\ s.answer.class = f.class /\ s.answer.timed_out = f.timed_out
      BY <1>2
    <2>4. /\ Len(q.attempts) = rec.current_index + 1
          /\ Describes(Last(q.attempts), s)
          /\ q.on = rec.on /\ q.failover_used = rec.failover_used
      BY <1>1, <1>6, <2>2, <2>3, FailureDescribed, ZenonT(30)
    <2> HIDE DEF q
    <2>5. Len(q.attempts) = Len(wire') /\ q.on
      BY <1>1, <1>2, <1>6, <2>1, <2>4
    <2>6. q.failover_used <=> MovedBefore(Len(wire))'
      BY <1>3, <2>1, <2>4
    <2>7. Describes(Last(q.attempts), wire'[Len(wire')])
      BY <1>2, <2>4 DEF s
    <2> QED BY <1>1, <1>2, <1>3, <1>4, <2>5, <2>6, <2>7, ZenonT(30) DEF q, s
  <1> QED BY <1>5, <1>6, ZenonT(30)

(* A step that leaves the history alone and ends the call, or changes      *)
(* nothing the invariant reads.                                            *)
LEMMA QuietMirrors ==
    ASSUME HeaderInv, wire' = wire, wire \in Seq(SendType),
           \/ phase' \in {"open", "done"}
           \/ /\ UNCHANGED << index, rec >>
              /\ phase' = phase \/ (phase \in Between /\ phase' \in Between)
    PROVE  HeaderInv'
  <1>2. HeaderIsTruthful'
    BY ZenonT(30) DEF HeaderInv, HeaderIsTruthful, Sends, MovedBefore
  <1>3. CASE phase' \in {"open", "done"}
    BY <1>2, <1>3 DEF HeaderInv, RecordInv, Between, Within
  <1>4. CASE /\ UNCHANGED << index, rec >>
             /\ phase' = phase \/ (phase \in Between /\ phase' \in Between)
    <2>1. /\ MirrorsBetween' <=> MirrorsBetween
          /\ phase' = phase => (MirrorsWithin' <=> MirrorsWithin)
      BY <1>4 DEF MirrorsBetween, MirrorsWithin, MovedBefore
    <2>2. RecordInv'
      BY <1>4, <2>1 DEF HeaderInv, RecordInv, Between, Within
    <2> QED BY <1>2, <2>2 DEF HeaderInv
  <1> QED BY <1>3, <1>4

(* Every step of the engine keeps the mirror and the headers' truth.       *)
LEMMA HeaderStep ==
    TypeInv /\ WalkInv /\ HeaderInv /\ [Next]_engineVars => HeaderInv'
  <1> SUFFICES ASSUME TypeInv, WalkInv, HeaderInv, [Next]_engineVars
               PROVE  HeaderInv'
    OBVIOUS
  <1>0. /\ Deadline \in FailureType
        /\ \A f \in TransportFailures : f \in FailureType
    BY EngineAssumption DEF Deadline, FailureType, ErrorClasses
  <1>w. wire \in Seq(SendType) /\ Len(wire) \in Nat
    BY DEF WalkInv
  <1>d. ASSUME phase \in {"idle", "ready", "waiting", "draining", "sleeping", "open"},
               phase' = "done", wire' = wire
        PROVE  HeaderInv'
    BY <1>d, <1>w, QuietMirrors
  <1>1. CASE Start
    <2>1. wire = << >> /\ wire' = wire /\ index' = index
      BY <1>1, <1>w DEF Start, WalkInv, SendsCounted
    <2>2. CASE phase' = "done"
      BY <1>d, <1>1, <2>1, <2>2 DEF Start
    <2>3. CASE phase' = "ready" /\ rec' = RequestRecorder(call)
      <3>1. /\ rec'.attempts = << >> /\ rec'.failover_used = FALSE
            /\ rec'.current_index = None
        BY <2>3 DEF RequestRecorder, NewRecorder
      <3>2. Len(wire') = 0 /\ Len(rec'.attempts) = 0 /\ ~ MovedBefore(Len(wire))'
        BY <2>1, <3>1 DEF MovedBefore
      <3>3. MirrorsBetween'
        BY <3>1, <3>2 DEF MirrorsBetween
      <3>4. RecordInv'
        BY <2>3, <3>1, <3>3 DEF RecordInv, Between, Within, InFlight
      <3>5. HeaderIsTruthful'
        BY <3>2 DEF HeaderIsTruthful, Sends
      <3> QED BY <3>4, <3>5 DEF HeaderInv
    <2> QED BY <1>1, <2>2, <2>3 DEF Start
  <1>2. CASE BeginSend
    <2>1. CASE ~ Assembles(call)
      <3>1. Stops(FromTransport("config"))
        BY ZenonT(30) DEF Stops, FromTransport, RetryableTransport
      <3>2. phase' = "done" /\ wire' = wire /\ phase = "ready"
        BY <1>2, <2>1, <3>1 DEF BeginSend, Conclude, EndWith
      <3> QED BY <1>d, <3>2
    <2>2. CASE Assembles(call)
      BY <1>2, <2>2, SendMirrors
    <2> QED BY <2>1, <2>2
  <1>3. CASE Wake
    BY <1>3, <1>w, QuietMirrors DEF Wake, Between
  <1>4. ASSUME NEW f \in FailureType, SendFails(f)
        PROVE  HeaderInv'
    <2> DEFINE q == OnTransportError(rec, f, FALSE, FALSE)
    <2>1. phase \in Within /\ Note(Failed(f))
      BY <1>4 DEF SendFails, Within
    <2>2. Failed(f) \in AnswerType
      BY AnswersOK
    <2>3. /\ Failed(f).kind = "failure" /\ Failed(f).class = f.class
          /\ Failed(f).timed_out = f.timed_out
      BY DEF Failed, NoAnswer
    <2>4. Conclude(q, FromTransport(IntoError(f)))
      BY <1>4, ZenonT(30) DEF SendFails
    <2>5. /\ HeaderIsTruthful' /\ RecorderOK(q) /\ index \in Nat
          /\ wire' \in Seq(SendType) /\ Len(wire') > 0
          /\ wire'[Len(wire')].host = index
          /\ q.on \/ ~ InFlight(q)
          /\ q.on => /\ Len(q.attempts) = Len(wire')
                     /\ Describes(Last(q.attempts), wire'[Len(wire')])
                     /\ q.failover_used <=> MovedBefore(Len(wire))'
      BY <2>1, <2>2, <2>3, FailureMirrors, ZenonT(30)
    <2> HIDE DEF q
    <2> QED BY <2>4, <2>5, ConcludeMirrors DEF HeaderInv
  <1>5. CASE DrainCompletes
    <2>1. /\ phase = "draining" /\ phase \in Within /\ wire' = wire
          /\ Conclude(rec, FromHttp(response))
      BY <1>5 DEF DrainCompletes, Within
    <2>2. /\ Len(wire) > 0 /\ RecorderOK(rec) /\ index \in Nat
          /\ wire[Len(wire)].host = index /\ HeaderIsTruthful
          /\ rec.on \/ ~ InFlight(rec)
          /\ rec.on => MirrorsWithin
      BY <2>1, InsideAttempt
    <2>3. /\ HeaderIsTruthful'
          /\ MovedBefore(Len(wire))' <=> MovedBefore(Len(wire))
      BY <2>1, <2>2, ZenonT(30) DEF HeaderIsTruthful, Sends, MovedBefore
    <2>4. rec.on => /\ Len(rec.attempts) = Len(wire')
                    /\ Describes(Last(rec.attempts), wire'[Len(wire')])
                    /\ rec.failover_used <=> MovedBefore(Len(wire))'
      BY <2>1, <2>2, <2>3 DEF MirrorsWithin
    <2>5. RecordInv'
      BY <1>w, <2>1, <2>2, <2>4, ConcludeMirrors
    <2> QED BY <2>3, <2>5 DEF HeaderInv
  <1>6. ASSUME NEW f \in FailureType, DrainFails(f)
        PROVE  HeaderInv'
    <2> DEFINE a == BodyFailed(wire[Len(wire)].answer, f)
               q == OnTransportError(rec, f, TRUE, FALSE)
    <2>1. phase \in Within /\ Note(a)
      BY <1>6 DEF DrainFails, Within, Last
    <2>2. wire[Len(wire)].answer \in AnswerType
      <3>1. Len(wire) \in 1 .. Len(wire)
        BY <1>w, <2>1, InsideAttempt
      <3>2. wire[Len(wire)] \in SendType
        BY <1>w, <3>1
      <3> QED BY <3>2 DEF SendType
    <2>3. a \in AnswerType
      BY <2>2, AnswersOK
    <2>4. a.kind = "body_failure" /\ a.class = f.class /\ a.timed_out = f.timed_out
      BY <2>2 DEF BodyFailed, AnswerType
    <2> HIDE DEF a
    <2>5. /\ HeaderIsTruthful' /\ RecorderOK(q) /\ index \in Nat
          /\ wire' \in Seq(SendType) /\ Len(wire') > 0
          /\ wire'[Len(wire')].host = index
          /\ q.on \/ ~ InFlight(q)
          /\ q.on => /\ Len(q.attempts) = Len(wire')
                     /\ Describes(Last(q.attempts), wire'[Len(wire')])
                     /\ q.failover_used <=> MovedBefore(Len(wire))'
      BY <2>1, <2>3, <2>4, FailureMirrors, ZenonT(30)
    <2>6. Conclude(q, FromHttp(response)) \/ phase' = "done"
      BY <1>6, ZenonT(30) DEF DrainFails, EndWith
    <2> HIDE DEF q
    <2>7. CASE Conclude(q, FromHttp(response))
      BY <2>5, <2>7, ConcludeMirrors DEF HeaderInv
    <2>8. CASE phase' = "done"
      BY <2>5, <2>8 DEF HeaderInv, RecordInv, Between, Within
    <2> QED BY <2>6, <2>7, <2>8
  <1>7. ASSUME NEW f \in FailureType, BodyFails(f)
        PROVE  HeaderInv'
    <2> DEFINE a == BodyFailed(wire[Len(wire)].answer, f)
    <2>1. phase = "open" /\ phase' = "done" /\ Note(a)
      BY <1>7 DEF BodyFails, Buffered, EndWith, Last
    <2>2. attempt \in Nat /\ Len(wire) = attempt + 1
      BY <2>1, EngineAssumption DEF TypeInv, WalkInv, SendsCounted, Trying
    <2>3. wire[Len(wire)].answer \in AnswerType
      <3>1. Len(wire) \in 1 .. Len(wire)
        BY <1>w, <2>2
      <3>2. wire[Len(wire)] \in SendType
        BY <1>w, <3>1
      <3> QED BY <3>2 DEF SendType
    <2>4. a \in AnswerType
      BY <2>3, AnswersOK
    <2> HIDE DEF a
    <2>5. Len(wire) > 0 /\ HeaderIsTruthful
      BY <1>w, <2>2 DEF HeaderInv
    <2>6. HeaderIsTruthful'
      BY <1>w, <2>1, <2>4, <2>5, NoteTruthful
    <2> QED BY <2>1, <2>6 DEF HeaderInv, RecordInv, Between, Within
  <1>8. CASE ReceiveHeaders
    <2>1. PICK resp \in Responses :
             /\ rec' = OnResponse(rec, resp)
             /\ Note(Answered(resp))
             /\ phase' \in {"open", "draining"}
      BY <1>8 DEF ReceiveHeaders
    <2>2. phase \in Within /\ index' = index
      BY <1>8 DEF ReceiveHeaders, Within
    <2>3. /\ Len(wire) > 0 /\ RecorderOK(rec)
          /\ wire[Len(wire)].host = index /\ HeaderIsTruthful
          /\ rec.on \/ ~ InFlight(rec)
          /\ rec.on => /\ InFlight(rec) /\ MirrorsWithin
                       /\ Len(rec.attempts) \in {rec.current_index, rec.current_index + 1}
      BY <2>2, InsideAttempt
    <2>4. Answered(resp) \in AnswerType
      BY AnswersOK
    <2>5. /\ wire' \in Seq(SendType) /\ Len(wire') = Len(wire)
          /\ wire'[Len(wire)].answer = Answered(resp)
          /\ wire'[Len(wire)].host = wire[Len(wire)].host
      BY <1>w, <2>1, <2>3, <2>4, NoteOK
    <2>6. HeaderIsTruthful' /\ MovedBefore(Len(wire))' = MovedBefore(Len(wire))
      BY <1>w, <2>1, <2>3, <2>4, NoteTruthful
    <2>7. CASE phase' = "open"
      BY <2>6, <2>7 DEF HeaderInv, RecordInv, Between, Within
    <2>8. CASE phase' = "draining" /\ ~ rec.on
      <3>1. rec' = rec
        BY <2>1, <2>3, <2>8 DEF OnResponse
      <3> QED BY <2>3, <2>6, <2>8, <3>1 DEF HeaderInv, RecordInv, Between, Within
    <2>9. CASE phase' = "draining" /\ rec.on
      <3> DEFINE s == wire'[Len(wire)]
      <3>1. /\ rec.current_index = Len(wire) - 1 /\ rec.current_host = index
            /\ rec.failover_used <=> MovedBefore(Len(wire))
        BY <2>3, <2>9 DEF MirrorsWithin
      <3>2. s.host = rec.current_host /\ s.answer = Answered(resp)
        BY <2>3, <2>5, <3>1
      <3> HIDE DEF s
      <3>3. /\ Len(rec'.attempts) = rec.current_index + 1
            /\ Describes(Last(rec'.attempts), s)
            /\ rec'.on = rec.on /\ rec'.failover_used = rec.failover_used
            /\ rec'.current_index = rec.current_index
            /\ rec'.current_host = rec.current_host
        BY <2>1, <2>3, <2>9, <3>2, ResponseDescribed, ZenonT(30)
      <3>4. /\ rec'.current_index = Len(wire') - 1 /\ rec'.current_host = index'
            /\ Len(rec'.attempts) = Len(wire')
        <4>1. Len(wire) \in Nat
          BY <1>w
        <4>2. Len(wire') = Len(wire) /\ index' = index
          BY <2>2, <2>5
        <4>3. rec'.current_index = Len(wire) - 1 /\ rec'.current_host = index
          BY <3>1, <3>3, ZenonT(30)
        <4>4. Len(rec'.attempts) = (Len(wire) - 1) + 1
          BY <3>1, <3>3, ZenonT(30)
        <4>5. (Len(wire) - 1) + 1 = Len(wire)
          BY <4>1
        <4> QED BY <4>2, <4>3, <4>4, <4>5, ZenonT(30)
      <3>5. rec'.failover_used <=> MovedBefore(Len(wire))'
        BY <2>6, <3>1, <3>3
      <3>6. Describes(Last(rec'.attempts), wire'[Len(wire')])
        BY <2>5, <3>3 DEF s
      <3>7. MirrorsWithin'
        BY <2>9, <3>4, <3>5, <3>6 DEF MirrorsWithin
      <3> QED BY <2>6, <2>9, <3>3, <3>7 DEF HeaderInv, RecordInv, Between, Within
    <2> QED BY <2>1, <2>7, <2>8, <2>9
  <1>9. CASE BodyCompletes
    BY <1>9, <1>d DEF BodyCompletes, Buffered, EndWith
  <1>10. CASE CallerDrops
    BY <1>10, <1>d DEF CallerDrops, Suspended, Buffered, EndWith
  <1>11. CASE UNCHANGED engineVars
    BY <1>11, <1>w, QuietMirrors DEF engineVars
  <1> QED
    BY <1>0, <1>1, <1>2, <1>3, <1>4, <1>5, <1>6, <1>7, <1>8, <1>9, <1>10, <1>11
    DEF Next, EngineNext, Local, Environment, DeadlineElapses, TransportBreaks,
        Terminated

(* Nothing has been sent or recorded at first.                             *)
LEMMA InitHeaderInv == Init => HeaderInv
  <1> SUFFICES ASSUME Init PROVE HeaderInv
    OBVIOUS
  <1>1. wire = << >> /\ phase = "idle" /\ Len(wire) = 0
    BY DEF Init
  <1> QED BY <1>1
      DEF HeaderInv, RecordInv, HeaderIsTruthful, Sends, Between, Within

(* Every x-tr-client header that goes out describes what the engine really *)
(* did (HeaderIsTruthful): the recorder that begin_attempt and             *)
(* header_value read mirrors the wire, whatever the servers, the network,  *)
(* the timers and the caller do and however long the call retries.         *)
THEOREM HeadersTellTheTruth == Spec => []HeaderIsTruthful
  <1>1. HeaderInv => HeaderIsTruthful
    BY DEF HeaderInv
  <1> QED
    BY <1>1, InitTypeInv, InitWalkInv, InitHeaderInv, TypeStep, WalkStep,
       HeaderStep, PTL DEF Spec

(* The same for calls that become streams: a stream sends nothing, so it   *)
(* cannot make a header wrong.                                             *)
THEOREM StreamsKeepHeadersTrue == StreamSpec => []HeaderIsTruthful
  <1>1. StreamInit => HeaderInv
    BY InitHeaderInv DEF StreamInit
  <1>2. ASSUME CallInv, HeaderInv, [StreamNext]_vars
        PROVE  HeaderInv'
    <2>1. CASE EngineNext /\ UNCHANGED streamVars
      BY <1>2, <2>1, HeaderStep DEF CallInv, Next
    <2>2. CASE StreamSteps
      <3>1. wire' = wire /\ phase' \in {phase, "done"}
        BY <2>2, ZenonT(30)
        DEF StreamSteps, Open, ReceiveFrame, PollPastTerminal, EndOfBody,
            FramingError, IdleTimeout, WireBreaks, WireFails, Release, engineVars
      <3>2. HandedOver \/ stage \in {"reading", "terminal", "ended"}
        BY <2>2, ZenonT(30)
        DEF StreamSteps, Open, ReceiveFrame, PollPastTerminal, EndOfBody,
            FramingError, IdleTimeout, WireBreaks, WireFails, Release
      <3>3. phase = "open"
        BY <1>2, <3>2 DEF CallInv, StageInv, HandedOver
      <3>4. phase' \in {"open", "done"}
        BY <3>1, <3>3
      <3> QED BY <1>2, <3>1, <3>4, QuietMirrors DEF CallInv, WalkInv
    <2>3. CASE UNCHANGED vars
      BY <1>2, <2>3, HeaderStep DEF CallInv, vars, engineVars
    <2> QED BY <1>2, <2>1, <2>2, <2>3 DEF StreamNext, StreamTerminated
  <1>3. CallInv /\ HeaderInv /\ [StreamNext]_vars => HeaderInv'
    BY <1>2
  <1>4. HeaderInv => HeaderIsTruthful
    BY DEF HeaderInv
  <1> QED BY <1>1, <1>3, <1>4, InitCallInv, CallStep, PTL DEF StreamSpec

-----------------------------------------------------------------------------
(* The delay of a retry, against the hint h of its response.               *)
Honours(ms, h) ==
    /\ h.ms # None => ms >= AtMost(h.ms, 60000)
    /\ h.ms = None /\ h.seconds # None => ms >= AtMost(h.seconds * 1000, 60000)
    /\ h.ms = None /\ h.seconds = None /\ h.date >= 0 => ms >= AtMost(h.date, 60000)

(* A delay computed from what some response asked for.                     *)
Suits(ms, after) ==
    /\ ms <= 60000
    /\ \A resp \in Responses :
          after = ParseRetryAfter(resp.hint) => Honours(ms, resp.hint)

(* retry_delay stays under a minute and honours the header it was given.   *)
LEMMA DelayHonours ==
    ASSUME NEW n \in Nat, NEW after \in Int, NEW jitter \in 0 .. BackoffCeiling(n)
    PROVE  Suits(RetryDelay(n, after, jitter), after)
  <1>1. 2 ^ AtMost(n, 6) \in Int
    BY DEF AtMost
  <1>2. jitter \in Nat /\ jitter <= 30000
    BY <1>1 DEF BackoffCeiling, AtMost, JitterBase, JitterCap
  <1>3. RetryDelay(n, after, jitter) <= 60000
    BY <1>2 DEF RetryDelay, AtLeast, AtMost, MaxRetryAfter
  <1>4. ASSUME NEW resp \in Responses, after = ParseRetryAfter(resp.hint)
        PROVE  Honours(RetryDelay(n, after, jitter), resp.hint)
    <2> DEFINE h == resp.hint
    <2>1. h.ms \in Int /\ h.seconds \in Int /\ h.date \in Int
      BY EngineAssumption DEF ResponseType, HintType
    <2> HIDE DEF h
    <2>2. after = ParseRetryAfter(h)
      BY <1>4 DEF h
    <2>3. h.ms # None => RetryDelay(n, after, jitter) >= AtMost(h.ms, 60000)
      BY <1>2, <2>1, <2>2
         DEF ParseRetryAfter, RetryDelay, AtLeast, AtMost, MaxRetryAfter, None
    <2>4. h.ms = None /\ h.seconds # None
             => RetryDelay(n, after, jitter) >= AtMost(h.seconds * 1000, 60000)
      BY <1>2, <2>1, <2>2
         DEF ParseRetryAfter, RetryDelay, AtLeast, AtMost, MaxRetryAfter, None
    <2>5. h.ms = None /\ h.seconds = None /\ h.date >= 0
             => RetryDelay(n, after, jitter) >= AtMost(h.date, 60000)
      BY <1>2, <2>1, <2>2
         DEF ParseRetryAfter, RetryDelay, AtLeast, AtMost, MaxRetryAfter, None
    <2> QED BY <2>3, <2>4, <2>5 DEF Honours, h
  <1> QED BY <1>3, <1>4 DEF Suits

(* The sleep an attempt may end in.                                        *)
LEMMA ConcludeHonours ==
    ASSUME TypeInv, NEW r, NEW d \in DispositionType, Conclude(r, d),
           phase' = "sleeping"
    PROVE  Suits(delay', d.retry_after)
  <1>1. Backoff(d)
    BY DEF Conclude, EndWith
  <1>2. PICK jitter \in 0 .. BackoffCeiling(attempt) :
            delay' = RetryDelay(attempt, d.retry_after, jitter)
    BY <1>1 DEF Backoff
  <1>3. attempt \in Nat /\ d.retry_after \in Int
    BY EngineAssumption DEF TypeInv, DispositionType
  <1> QED BY <1>2, <1>3, DelayHonours, ZenonT(30)

(* Every step of the engine.                                               *)
LEMMA EngineHonours ==
    ASSUME TypeInv, WalkInv, EngineNext
    PROVE  BackoffHonoursServer'
  <1> SUFFICES ASSUME phase' = "sleeping"
               PROVE  /\ delay' <= 60000
                      /\ Last(wire').answer.kind # "failure" =>
                            Honours(delay', response'.hint)
    BY DEF BackoffHonoursServer, Honours
  <1>1. ASSUME phase = "draining", UNCHANGED response,
               Suits(delay', FromHttp(response).retry_after)
        PROVE  delay' <= 60000 /\ Honours(delay', response'.hint)
    <2>1. response \in Responses
      BY <1>1 DEF TypeInv
    <2>2. FromHttp(response).retry_after = ParseRetryAfter(response.hint)
      BY DEF FromHttp
    <2> QED BY <1>1, <2>1, <2>2 DEF Suits
  <1>2. ASSUME NEW f \in FailureType, SendFails(f)
        PROVE  delay' <= 60000 /\ Last(wire').answer.kind = "failure"
    <2>1. FromTransport(IntoError(f)) \in DispositionType
      BY DispositionOK
    <2>2. Suits(delay', FromTransport(IntoError(f)).retry_after)
      BY <1>2, <2>1, ConcludeHonours, ZenonT(30) DEF SendFails
    <2> DEFINE a == Failed(f)
    <2>3. a.kind = "failure"
      BY DEF Failed, NoAnswer
    <2>4. a \in AnswerType /\ Note(a)
      BY <1>2, AnswersOK, ZenonT(30) DEF SendFails
    <2> HIDE DEF a
    <2>5. wire \in Seq(SendType) /\ Len(wire) > 0
      BY <1>2, EngineAssumption DEF SendFails, WalkInv, SendsCounted, Trying, TypeInv
    <2>6. Len(wire') = Len(wire) /\ wire'[Len(wire)].answer = a
      BY <2>4, <2>5, NoteOK
    <2> QED BY <2>2, <2>3, <2>6 DEF Last, Suits
  <1>3. CASE BeginSend
    <2>1. Conclude(BeginAttempt(rec, index), FromTransport("config"))
      BY <1>3 DEF BeginSend
    <2>2. ~ FromTransport("config").retry
      BY ZenonT(30) DEF FromTransport, RetryableTransport
    <2> QED BY <2>1, <2>2 DEF Conclude, EndWith, Stops
  <1>4. ASSUME NEW f, DrainFails(f)
        PROVE  delay' <= 60000 /\ Honours(delay', response'.hint)
    <2> DEFINE q == OnTransportError(rec, f, TRUE, FALSE)
               d == FromHttp(response)
    <2>1. phase = "draining" /\ UNCHANGED response /\ Conclude(q, d)
      BY <1>4, ZenonT(30) DEF DrainFails, EndWith
    <2>2. d \in DispositionType
      BY <2>1, DispositionOK DEF TypeInv
    <2> HIDE DEF q, d
    <2>3. Suits(delay', d.retry_after)
      BY <2>1, <2>2, ConcludeHonours, ZenonT(30)
    <2> QED BY <1>1, <2>1, <2>3, SMT DEF d
  <1>5. ASSUME DrainCompletes
        PROVE  delay' <= 60000 /\ Honours(delay', response'.hint)
    <2> DEFINE d == FromHttp(response)
    <2>1. phase = "draining" /\ UNCHANGED response /\ Conclude(rec, d)
      BY <1>5 DEF DrainCompletes
    <2>2. d \in DispositionType
      BY <2>1, DispositionOK DEF TypeInv
    <2> HIDE DEF d
    <2>3. Suits(delay', d.retry_after)
      BY <2>1, <2>2, ConcludeHonours, ZenonT(30)
    <2> QED BY <1>1, <2>1, <2>3, SMT DEF d
  <1>6. Deadline \in FailureType /\ TransportFailures \subseteq FailureType
    BY EngineAssumption DEF Deadline, FailureType, ErrorClasses
  <1>7. CASE DeadlineElapses \/ TransportBreaks
    <2>1. ASSUME NEW f, BodyFails(f) PROVE FALSE
      BY <2>1 DEF BodyFails, EndWith
    <2>2. PICK f \in FailureType : SendFails(f) \/ DrainFails(f) \/ BodyFails(f)
      BY <1>6, <1>7, ZenonT(30) DEF DeadlineElapses, TransportBreaks
    <2> QED BY <1>2, <1>4, <2>1, <2>2
  <1>8. CASE Start \/ Wake \/ ReceiveHeaders \/ BodyCompletes \/ CallerDrops
    BY <1>8 DEF Start, Wake, ReceiveHeaders, BodyCompletes, CallerDrops, EndWith
  <1> QED BY <1>3, <1>5, <1>7, <1>8 DEF EngineNext, Local, Environment

(* A step of a call sleeps as long as the server asked, or not at all.     *)
LEMMA HonoursStep ==
    CallInv /\ BackoffHonoursServer /\ [StreamNext]_vars => BackoffHonoursServer'
  <1> SUFFICES ASSUME CallInv, BackoffHonoursServer, [StreamNext]_vars
               PROVE  BackoffHonoursServer'
    OBVIOUS
  <1>1. CASE EngineNext
    BY <1>1, EngineHonours DEF CallInv
  <1>2. CASE UNCHANGED vars
    <2>1. UNCHANGED << phase, delay, wire, response >>
      BY <1>2 DEF vars, engineVars
    <2> QED BY <2>1, SMT DEF BackoffHonoursServer
  <1>3. CASE StreamSteps
    <2>1. stage = "closed" => Open
      BY <1>3 DEF StreamSteps, ReceiveFrame, PollPastTerminal, EndOfBody,
                  FramingError, IdleTimeout, WireBreaks, WireFails, Release
    <2>2. phase' \in {phase, "done"} /\ phase # "sleeping"
      <3>1. phase' \in {phase, "done"}
        BY <1>3, ZenonT(30) DEF StreamSteps, Open, engineVars, ReceiveFrame, PollPastTerminal,
                    EndOfBody, FramingError, IdleTimeout, WireBreaks, WireFails, Release
      <3>2. phase = "open"
        BY <1>3, ZenonT(30) DEF StreamSteps, Open, HandedOver, ReceiveFrame, PollPastTerminal,
                    EndOfBody, FramingError, IdleTimeout, WireBreaks, WireFails,
                    Release, CallInv, StageInv
      <3> QED BY <3>1, <3>2
    <2> QED BY <2>2 DEF BackoffHonoursServer
  <1> QED BY <1>1, <1>2, <1>3 DEF StreamNext, StreamTerminated

(* The engine never sleeps longer than a minute and never less than the    *)
(* server asked for, whatever the jitter drawn (retry_delay,               *)
(* parse_retry_after).                                                     *)
THEOREM BackoffsHonourTheServer ==
    StreamSpec => []BackoffHonoursServer
  <1>1. StreamInit => CallInv /\ BackoffHonoursServer
    <2>1. StreamInit => phase = "idle"
      BY DEF StreamInit, Init
    <2>2. phase = "idle" => BackoffHonoursServer
      BY SMT DEF BackoffHonoursServer
    <2> QED BY <2>1, <2>2, InitCallInv
  <1>2. CallInv /\ [StreamNext]_vars => CallInv'
    BY CallStep
  <1> QED BY <1>1, <1>2, HonoursStep, PTL DEF StreamSpec
=============================================================================
