--------------------------- MODULE ReporterProofs ---------------------------
(***************************************************************************)
(* Theorems about the reporter's flushes, for any callers, requests,       *)
(* answers, caps, windows, rates and times: what is posted respects the    *)
(* gates, and a reporter that was switched off keeps nothing.              *)
(***************************************************************************)
EXTENDS Reporter, TLAPS

-----------------------------------------------------------------------------
StateFields ==
    {"api_key", "http", "rate", "interval", "events", "next_event",
     "events_bytes", "window_start", "counters", "closed_windows",
     "next_window", "retained", "dropped", "seq", "backoff", "backoff_until",
     "paused_until", "disabled", "closed", "worker_started"}

(* The gates are times, and a reporter that is off has let go of all.      *)
Emptied(s) ==
    /\ s.events = << >> /\ s.counters = << >> /\ s.closed_windows = << >>
    /\ s.retained = 0 /\ s.dropped = 0

StateOK(s) ==
    /\ DOMAIN s = StateFields
    /\ s.backoff \in Nat /\ s.backoff_until \in Nat /\ s.paused_until \in Nat
    /\ s.disabled \in BOOLEAN
    /\ s.disabled => Emptied(s)

(* What the operations on buffers leave alone.                             *)
Kept(s, t) ==
    /\ DOMAIN t = DOMAIN s
    /\ t.backoff = s.backoff /\ t.backoff_until = s.backoff_until
    /\ t.paused_until = s.paused_until
    /\ t.disabled = s.disabled /\ t.http = s.http

Inside(f) == flusher[f].pc \in {"open", "posted"}

(* Whoever is inside a flush holds flush_lock, so nobody else can move the *)
(* gates or switch the reporter off before the batch is posted; and the    *)
(* one step that moves a gate without the lock, a worker that cannot build *)
(* its HTTP client, happens only where no flush ever begins.               *)
FlushesHoldTheLock ==
    /\ DOMAIN flusher = Flushers
    /\ \A f \in Flushers :
         /\ DOMAIN flusher[f] = {"pc", "t", "batch"}
         /\ Inside(f) => lock = f /\ ~ state.disabled
         /\ flusher[f].pc = "open" => now >= Gate(state)
         /\ ~ state.http => flusher[f].pc \in {"rest", "gone"}

RInv == now \in Nat /\ StateOK(state) /\ FlushesHoldTheLock

-----------------------------------------------------------------------------
(* The operations on buffers keep the gates.                               *)
LEMMA KeptTwice ==
    ASSUME NEW s, NEW t, NEW u, Kept(s, t), Kept(t, u)
    PROVE  Kept(s, u)
  BY DEF Kept

(* Dropping the oldest windows keeps the gates.                            *)
LEMMA DropOldestKeeps ==
    ASSUME NEW s, DOMAIN s = StateFields, NEW k
    PROVE  Kept(s, DropOldest(s, k))
  BY DEF DropOldest, Kept, StateFields

(* So does prune_windows.                                                  *)
LEMMA PruneKeeps ==
    ASSUME NEW s, DOMAIN s = StateFields, NEW t
    PROVE  Kept(s, PruneWindows(s, t))
  <1> DEFINE young == DropOldest(s, Expired(s, t))
  <1>1. Kept(s, young)
    BY DropOldestKeeps
  <1>2. DOMAIN young = StateFields
    BY <1>1 DEF Kept
  <1> HIDE DEF young
  <1>3. Kept(young, DropOldest(young, Oversize(young)))
    BY <1>2, DropOldestKeeps
  <1>4. Kept(s, DropOldest(young, Oversize(young)))
    BY <1>1, <1>3, KeptTwice
  <1> QED BY <1>4 DEF PruneWindows, young

(* So does close_current_window, pruning included.                         *)
LEMMA CloseWindowKeeps ==
    ASSUME NEW s, DOMAIN s = StateFields, NEW t
    PROVE  Kept(s, CloseCurrentWindow(s, t))
  <1> DEFINE more ==
        [s EXCEPT !.closed_windows =
                      Append(@, [id |-> s.next_window,
                                 start |-> s.window_start,
                                 rows |-> s.counters,
                                 size |-> WindowSize(s.counters)]),
                  !.counters = << >>,
                  !.next_window = @ + 1,
                  !.retained = @ + WindowSize(s.counters),
                  !.window_start = MinuteStart(t)]
  <1>1. Kept(s, s)
    BY DEF Kept
  <1>2. Kept(s, more)
    BY DEF Kept, StateFields
  <1>3. DOMAIN more = StateFields
    BY <1>2 DEF Kept
  <1>4. CloseCurrentWindow(s, t) = s \/ CloseCurrentWindow(s, t) = PruneWindows(more, t)
    BY DEF CloseCurrentWindow
  <1> HIDE DEF more
  <1>5. Kept(s, PruneWindows(more, t))
    BY <1>2, <1>3, PruneKeeps, KeptTwice
  <1> QED BY <1>1, <1>4, <1>5

(* So does roll_window, whether or not a window closes.                    *)
LEMMA RollKeeps ==
    ASSUME NEW s, DOMAIN s = StateFields, NEW t
    PROVE  Kept(s, RollWindow(s, t))
  <1> DEFINE c == CloseCurrentWindow(s, t)
  <1>1. Kept(s, c) /\ Kept(s, s)
    BY CloseWindowKeeps DEF Kept
  <1>2. DOMAIN c = StateFields
    BY <1>1 DEF Kept
  <1> HIDE DEF c
  <1>3. ASSUME NEW u, DOMAIN u = StateFields, NEW x
        PROVE  Kept(u, [u EXCEPT !.window_start = x])
    BY <1>3 DEF Kept, StateFields
  <1>4. Kept(c, [c EXCEPT !.window_start = MinuteStart(t)])
    BY <1>2, <1>3
  <1>5. Kept(s, [c EXCEPT !.window_start = MinuteStart(t)])
    BY <1>1, <1>4, KeptTwice
  <1>6. Kept(s, [s EXCEPT !.window_start = MinuteStart(t)])
    BY <1>3
  <1> QED BY <1>1, <1>5, <1>6 DEF RollWindow, c

(* So does what prepare_payload does to the state before it selects.       *)
LEMMA PreparedKeeps ==
    ASSUME NEW s, DOMAIN s = StateFields, NEW t
    PROVE  Kept(s, Prepared(s, t))
  <1> DEFINE r == RollWindow(s, t)
             c == CloseCurrentWindow(r, t)
  <1>1. Kept(s, r)
    BY RollKeeps
  <1>2. DOMAIN r = StateFields
    BY <1>1 DEF Kept
  <1> HIDE DEF r
  <1>3. Kept(r, c)
    BY <1>2, CloseWindowKeeps
  <1>4. DOMAIN c = StateFields
    BY <1>2, <1>3 DEF Kept
  <1> HIDE DEF c
  <1>5. Kept(c, PruneWindows(c, t))
    BY <1>4, PruneKeeps
  <1>6. Kept(s, PruneWindows(c, t))
    BY <1>1, <1>3, <1>5, KeptTwice
  <1> QED BY <1>6 DEF Prepared, c, r

(* So does append_event, with the event it drops to make room.             *)
LEMMA AppendKeeps ==
    ASSUME NEW s, DOMAIN s = StateFields, NEW ok
    PROVE  Kept(s, AppendEvent(s, ok))
  <1> DEFINE room == IF Len(s.events) >= MaxEvents THEN DropBufferedEvent(s) ELSE s
  <1>1. Kept(s, DropBufferedEvent(s)) /\ Kept(s, s)
    BY DEF DropBufferedEvent, Kept, StateFields
  <1>2. Kept(s, room)
    BY <1>1
  <1>3. DOMAIN room = StateFields
    BY <1>2 DEF Kept
  <1> HIDE DEF room
  <1>4. Kept(room, [room EXCEPT !.events = Append(@, [id |-> room.next_event, ok |-> ok]),
                                !.next_event = @ + 1,
                                !.events_bytes = @ + 1])
    BY <1>3 DEF Kept, StateFields
  <1> QED BY <1>2, <1>4, KeptTwice DEF AppendEvent, room

(* So does what on_request does with a request that is recorded.           *)
LEMMA MergedKeeps ==
    ASSUME NEW s, DOMAIN s = StateFields, NEW request, NEW keep, NEW t
    PROVE  Kept(s, Merged(s, request, keep, t))
  <1> DEFINE r == RollWindow(s, t)
             m == [r EXCEPT !.counters = MergeCounters(@, request.counters)]
  <1>1. Kept(s, r)
    BY RollKeeps
  <1>2. DOMAIN r = StateFields
    BY <1>1 DEF Kept
  <1> HIDE DEF r
  <1>3. Kept(r, m)
    BY <1>2 DEF Kept, StateFields
  <1>4. DOMAIN m = StateFields
    BY <1>2, <1>3 DEF Kept
  <1>5. Kept(s, m)
    BY <1>1, <1>3, KeptTwice
  <1> HIDE DEF m
  <1>6. Kept(s, AppendEvent(m, request.ok))
    BY <1>4, <1>5, AppendKeeps, KeptTwice
  <1> QED BY <1>5, <1>6 DEF Merged, m, r

-----------------------------------------------------------------------------
(* What keeps the gates keeps a reporter that is on in order.              *)
LEMMA KeptOK ==
    ASSUME NEW s, NEW t, StateOK(s), Kept(s, t), ~ s.disabled
    PROVE  StateOK(t) /\ Gate(t) = Gate(s)
  BY DEF StateOK, Kept, Gate

(* set_backoff moves its gate and nothing else.                            *)
LEMMA SetBackoffOK ==
    ASSUME NEW s, StateOK(s), NEW t \in Nat, NEW after \in Int
    PROVE  LET n == SetBackoff(s, t, after)
           IN  StateOK(n) /\ n.http = s.http /\ n.disabled = s.disabled
  <1> DEFINE u == t + Smaller(Larger(s.backoff, after), BackoffMax)
             b == Smaller(Larger(2 * s.backoff, BackoffMin), BackoffMax)
  <1>1. u \in Nat /\ b \in Nat
    BY GatesAssumption DEF StateOK, Smaller, Larger
  <1>2. SetBackoff(s, t, after) = [s EXCEPT !.backoff_until = u, !.backoff = b]
    BY DEF SetBackoff, StateOK, StateFields
  <1> HIDE DEF u, b
  <1>3. LET n == [s EXCEPT !.backoff_until = u, !.backoff = b]
        IN  /\ DOMAIN n = StateFields /\ n.backoff = b /\ n.backoff_until = u
            /\ n.paused_until = s.paused_until /\ n.disabled = s.disabled
            /\ n.http = s.http /\ n.events = s.events /\ n.counters = s.counters
            /\ n.closed_windows = s.closed_windows
            /\ n.retained = s.retained /\ n.dropped = s.dropped
    BY DEF StateOK, StateFields
  <1> QED BY <1>1, <1>2, <1>3 DEF StateOK, Emptied

(* remove_selected keeps the gates.                                        *)
LEMMA RemoveKeeps ==
    ASSUME NEW s, DOMAIN s = StateFields, NEW batch
    PROVE  Kept(s, RemoveSelected(s, batch))
  BY DEF RemoveSelected, Kept, StateFields

(* Every answer leaves the state in order: one that says off empties it.   *)
LEMMA HandleResponseOK ==
    ASSUME NEW s, StateOK(s), ~ s.disabled, NEW batch, NEW a \in Answers,
           NEW t \in Nat
    PROVE  LET new == HandleResponse(s, batch, a, t)
           IN  StateOK(new) /\ new.http = s.http
  <1>0. /\ a.retry_after \in Int /\ a.pause \in Int /\ a.off \in BOOLEAN
        /\ DOMAIN s = StateFields
    BY ReporterAssumption DEF AnswerType, StateOK
  <1> DEFINE r == RemoveSelected(s, batch)
  <1>1. Kept(s, r)
    BY <1>0, RemoveKeeps
  <1>2. DOMAIN r = StateFields
    BY <1>0, <1>1 DEF Kept
  <1>3. ASSUME NEW x PROVE Kept(r, [r EXCEPT !.dropped = x])
    BY <1>2 DEF Kept, StateFields
  <1> HIDE DEF r
  <1>4. ASSUME NEW x
        PROVE  LET n == [r EXCEPT !.dropped = x]
               IN  StateOK(n) /\ ~ n.disabled /\ n.http = s.http
    <2>1. Kept(s, [r EXCEPT !.dropped = x])
      BY <1>1, <1>3, KeptTwice
    <2> QED BY <2>1, KeptOK, ZenonT(30) DEF Kept
  <1>5. StateOK(Disable(s)) /\ Disable(s).http = s.http
    <2>1. ASSUME NEW b \in BOOLEAN, b = TRUE, NEW z, z = 0
          PROVE  LET n == [s EXCEPT !.disabled = b, !.events = << >>,
                              !.events_bytes = z, !.counters = << >>,
                              !.closed_windows = << >>, !.retained = z,
                              !.dropped = z]
                 IN  StateOK(n) /\ n.http = s.http
      BY <1>0, <2>1 DEF StateOK, Emptied, StateFields
    <2> QED BY <2>1, ZenonT(30) DEF Disable
  <1>6. ASSUME NEW n, StateOK(n), ~ n.disabled
        PROVE  LET p == ApplyPolicy(ResetBackoff(n), a, t)
               IN  StateOK(p) /\ p.http = n.http
    <2> DEFINE q == ResetBackoff(n)
    <2>1. /\ DOMAIN q = StateFields /\ q.backoff = BackoffMin
          /\ q.backoff_until = 0 /\ q.paused_until = n.paused_until
          /\ q.disabled = n.disabled /\ q.http = n.http
      BY <1>6 DEF ResetBackoff, StateOK, StateFields
    <2> HIDE DEF q
    <2>2. ASSUME NEW x, NEW y, NEW z
          PROVE  LET p == [q EXCEPT !.rate = x, !.interval = y, !.paused_until = z]
                 IN  /\ DOMAIN p = StateFields /\ p.backoff = q.backoff
                     /\ p.backoff_until = q.backoff_until /\ p.paused_until = z
                     /\ p.disabled = q.disabled /\ p.http = q.http
      BY <2>1 DEF StateFields
    <2>3. (IF a.pause \in 0 .. MaxPause THEN Larger(q.paused_until, t + a.pause)
           ELSE q.paused_until) \in Nat
      BY <1>0, <1>6, <2>1, GatesAssumption DEF StateOK, Larger
    <2>4. PICK x, y :
            ApplyPolicy(q, a, t) =
              [q EXCEPT !.rate = x, !.interval = y,
                 !.paused_until = IF a.pause \in 0 .. MaxPause
                                  THEN Larger(q.paused_until, t + a.pause)
                                  ELSE q.paused_until]
      BY <2>1, ZenonT(30) DEF ApplyPolicy, StateFields
    <2>5. BackoffMin \in Nat /\ 0 \in Nat
      BY GatesAssumption
    <2> QED BY <1>6, <2>1, <2>2, <2>3, <2>4, <2>5 DEF StateOK, q
  <1>7. CASE a.off \/ a.status = 400
    BY <1>5, <1>7 DEF HandleResponse
  <1>8. CASE ~ a.off /\ a.status = 202
    <2> DEFINE n == [r EXCEPT !.dropped = Minus(@, batch.dropped)]
    <2>1. HandleResponse(s, batch, a, t) = ApplyPolicy(ResetBackoff(n), a, t)
      BY <1>8 DEF HandleResponse, r
    <2>2. n = [r EXCEPT !.dropped = Minus(r.dropped, batch.dropped)]
      OBVIOUS
    <2> HIDE DEF n
    <2>3. StateOK(n) /\ ~ n.disabled /\ n.http = s.http
      BY <1>4, <2>2
    <2> QED BY <1>6, <2>1, <2>3
  <1>9. CASE ~ a.off /\ a.status = 413
    <2> DEFINE x == r.dropped + Len(batch.events) + Len(batch.refs)
    <2>1. HandleResponse(s, batch, a, t) = [r EXCEPT !.dropped = x]
      BY <1>9 DEF HandleResponse, r
    <2> HIDE DEF x
    <2> QED BY <1>4, <2>1
  <1>10. CASE ~ a.off /\ a.status \notin {202, 400, 413}
    <2>1. HandleResponse(s, batch, a, t) = SetBackoff(s, t, a.retry_after)
      BY <1>10 DEF HandleResponse
    <2> QED BY <1>0, <2>1, SetBackoffOK
  <1> QED BY <1>7, <1>8, <1>9, <1>10

-----------------------------------------------------------------------------
(* The reporter before its first call.                                     *)
LEMMA InitRInv == Init => RInv
  <1> SUFFICES ASSUME Init PROVE RInv
    OBVIOUS
  <1>1. PICK key \in BOOLEAN, client \in BOOLEAN : state = InitialState(key, client)
    BY DEF Init
  <1>2. StateOK(state)
    <2>1. DOMAIN state = StateFields
      BY <1>1 DEF InitialState, StateFields
    <2>2. /\ state.backoff = BackoffMin /\ state.backoff_until = 0
          /\ state.paused_until = 0 /\ state.disabled = FALSE
      BY <1>1 DEF InitialState
    <2>3. state.backoff \in Nat /\ state.backoff_until \in Nat /\ state.paused_until \in Nat
      BY <2>2, GatesAssumption
    <2>4. state.disabled \in BOOLEAN /\ ~ state.disabled
      BY <2>2, Zenon
    <2> QED BY <2>1, <2>3, <2>4 DEF StateOK
  <1>3. FlushesHoldTheLock
    <2>1. DOMAIN flusher = Flushers
      BY DEF Init
    <2>2. \A f \in Flushers : DOMAIN flusher[f] = {"pc", "t", "batch"}
                              /\ flusher[f].pc = "rest"
      BY DEF Init, Resting
    <2> QED BY <2>1, <2>2 DEF FlushesHoldTheLock, Inside
  <1>4. now \in Nat
    BY DEF Init
  <1> QED BY <1>2, <1>3, <1>4 DEF RInv

(* One flusher moves to pc x; the other stays.                             *)
LEMMA PcStep ==
    ASSUME FlushesHoldTheLock, NEW f \in Flushers, NEW x,
           DOMAIN x = {"pc", "t", "batch"}, flusher' = [flusher EXCEPT ![f] = x]
    PROVE  /\ DOMAIN flusher' = Flushers /\ flusher'[f] = x
           /\ \A g \in Flushers \ {f} : flusher'[g] = flusher[g]
           /\ \A g \in Flushers : DOMAIN flusher'[g] = {"pc", "t", "batch"}
  <1>1. DOMAIN flusher = Flushers
    BY DEF FlushesHoldTheLock
  <1>2. /\ DOMAIN flusher' = Flushers /\ flusher'[f] = x
        /\ \A g \in Flushers \ {f} : flusher'[g] = flusher[g]
    BY <1>1
  <1> QED BY <1>2 DEF FlushesHoldTheLock

(* Steps that touch the buffers only.                                      *)
LEMMA BufferStep ==
    ASSUME RInv, UNCHANGED << flusher, lock >>, now' \in Nat, now' >= now,
           StateOK(state'), Kept(state, state')
    PROVE  RInv'
  <1>1. Gate(state') = Gate(state) /\ Gate(state) \in Nat
    BY DEF RInv, StateOK, Kept, Gate, Larger
  <1>2. state'.http = state.http /\ state'.disabled = state.disabled
    BY DEF Kept
  <1>3. FlushesHoldTheLock'
    <2>1. DOMAIN flusher' = Flushers
      BY DEF RInv, FlushesHoldTheLock
    <2>2. ASSUME NEW f \in Flushers
          PROVE  /\ DOMAIN flusher'[f] = {"pc", "t", "batch"}
                 /\ Inside(f)' => lock' = f /\ ~ state'.disabled
                 /\ flusher'[f].pc = "open" => now' >= Gate(state')
                 /\ ~ state'.http => flusher'[f].pc \in {"rest", "gone"}
      BY <1>1, <1>2, <2>2 DEF RInv, FlushesHoldTheLock, Inside
    <2> QED BY <2>1, <2>2 DEF FlushesHoldTheLock
  <1> QED BY <1>3 DEF RInv

(* on_request keeps the invariant, whoever closes or flushes meanwhile.    *)
LEMMA RecordKeeps ==
    ASSUME RInv, NEW c \in Callers, Record(c)
    PROVE  RInv'
  <1>1. PICK runtime \in BOOLEAN :
           state' = StartWorker(Recorded(state, caller[c].request, caller[c].keep,
                                         caller[c].t), runtime)
    BY DEF Record
  <1> DEFINE s == Recorded(state, caller[c].request, caller[c].keep, caller[c].t)
  <1>2. DOMAIN state = StateFields
    BY DEF RInv, StateOK
  <1>3. Kept(state, state)
    BY DEF Kept
  <1>4. CASE state.disabled \/ state.closed
    <2>1. s = state
      BY <1>4 DEF Recorded
    <2>2. state' = state
      BY <1>1, <1>4, <2>1 DEF StartWorker
    <2> QED BY <1>3, <2>2, BufferStep DEF RInv, Record
  <1>5. CASE ~ (state.disabled \/ state.closed)
    <2>1. s = Merged(state, caller[c].request, caller[c].keep, caller[c].t)
      BY <1>5 DEF Recorded
    <2>2. Kept(state, s)
      BY <1>2, <2>1, MergedKeeps
    <2>3. DOMAIN s = StateFields
      BY <1>2, <2>2 DEF Kept
    <2> HIDE DEF s
    <2>4. Kept(s, [s EXCEPT !.worker_started = TRUE])
      BY <2>3 DEF Kept, StateFields
    <2>5. state' = s \/ state' = [s EXCEPT !.worker_started = TRUE]
      BY <1>1 DEF StartWorker, s
    <2>6. Kept(state, state')
      <3>1. CASE state' = s
        BY <2>2, <3>1
      <3>2. CASE state' = [s EXCEPT !.worker_started = TRUE]
        <4>1. Kept(s, state')
          BY <2>4, <3>2
        <4> QED BY <2>2, <4>1, KeptTwice
      <3> QED BY <2>5, <3>1, <3>2
    <2>7. StateOK(state')
      BY <1>5, <2>6, KeptOK DEF RInv
    <2> QED BY <2>6, <2>7, BufferStep DEF RInv, Record
  <1> QED BY <1>4, <1>5

(* A step of f that ends its flush leaves nobody inside one.               *)
LEMMA FlushEnds ==
    ASSUME RInv, NEW f \in Flushers, Inside(f), flusher' = Return(f),
           UNCHANGED now, StateOK(state'), state'.http = state.http
    PROVE  RInv'
  <1>1. DOMAIN Resting = {"pc", "t", "batch"} /\ Resting.pc = "rest"
    BY DEF Resting
  <1>2. FlushesHoldTheLock
    BY DEF RInv
  <1>3. /\ DOMAIN flusher' = Flushers /\ flusher'[f] = Resting
        /\ \A g \in Flushers \ {f} : flusher'[g] = flusher[g]
        /\ \A g \in Flushers : DOMAIN flusher'[g] = {"pc", "t", "batch"}
    BY <1>1, <1>2, PcStep, ZenonT(30) DEF Return
  <1>4. \A g \in Flushers \ {f} : ~ Inside(g)
    BY <1>2 DEF FlushesHoldTheLock
  <1>5. \A g \in Flushers : ~ Inside(g)' /\ flusher'[g].pc # "open"
    BY <1>1, <1>3, <1>4 DEF Inside
  <1>6. ~ state'.http => \A g \in Flushers : flusher'[g].pc \in {"rest", "gone"}
    BY <1>1, <1>2, <1>3 DEF FlushesHoldTheLock
  <1>7. FlushesHoldTheLock'
    BY <1>3, <1>5, <1>6 DEF FlushesHoldTheLock
  <1> QED BY <1>7 DEF RInv

(* The end of a flush, with or without an answer, keeps the invariant.     *)
LEMMA AnswerKeeps ==
    ASSUME RInv, NEW f \in Flushers, Answered(f) \/ SendFails(f)
    PROVE  RInv'
  <1>1. /\ flusher[f].pc = "posted" /\ flusher' = Return(f) /\ UNCHANGED now
    BY DEF Answered, SendFails, EndFlush
  <1>2. Inside(f) /\ ~ state.disabled /\ StateOK(state) /\ now \in Nat
    BY <1>1 DEF RInv, FlushesHoldTheLock, Inside
  <1>3. CASE Answered(f)
    <2>1. PICK a \in Answers : state' = HandleResponse(state, flusher[f].batch, a, now)
      BY <1>3 DEF Answered
    <2>2. StateOK(state') /\ state'.http = state.http
      BY <1>2, <2>1, HandleResponseOK
    <2> QED BY <1>1, <1>2, <2>2, FlushEnds
  <1>4. CASE SendFails(f)
    <2>1. state' = SetBackoff(state, now, None) /\ None \in Int
      BY <1>4 DEF SendFails, None
    <2>2. StateOK(state') /\ state'.http = state.http
      BY <1>2, <2>1, SetBackoffOK
    <2> QED BY <1>1, <1>2, <2>2, FlushEnds
  <1> QED BY <1>3, <1>4

(* f moves to x without ending or starting anything for the other one.     *)
LEMMA FlusherMoves ==
    ASSUME RInv, NEW f \in Flushers, NEW x, DOMAIN x = {"pc", "t", "batch"},
           flusher' = [flusher EXCEPT ![f] = x], UNCHANGED now,
           StateOK(state'), Kept(state, state'),
           \A g \in Flushers \ {f} : lock = g => lock' = g,
           x.pc \in {"open", "posted"} => lock' = f /\ ~ state.disabled,
           x.pc = "open" => now >= Gate(state),
           x.pc \in {"rest", "gone"} \/ state.http
    PROVE  RInv'
  <1>1. FlushesHoldTheLock
    BY DEF RInv
  <1>2. /\ DOMAIN flusher' = Flushers /\ flusher'[f] = x
        /\ \A g \in Flushers \ {f} : flusher'[g] = flusher[g]
        /\ \A g \in Flushers : DOMAIN flusher'[g] = {"pc", "t", "batch"}
    BY <1>1, PcStep, ZenonT(30)
  <1>3. Gate(state') = Gate(state) /\ state'.disabled = state.disabled
        /\ state'.http = state.http
    BY DEF Kept, Gate
  <1>4. ASSUME NEW g \in Flushers
        PROVE  /\ Inside(g)' => lock' = g /\ ~ state'.disabled
               /\ flusher'[g].pc = "open" => now' >= Gate(state')
               /\ ~ state'.http => flusher'[g].pc \in {"rest", "gone"}
    <2>1. CASE g = f
      BY <1>2, <1>3, <2>1 DEF Inside
    <2>2. CASE g # f
      BY <1>1, <1>2, <1>3, <2>2 DEF Inside, FlushesHoldTheLock
    <2> QED BY <2>1, <2>2
  <1> QED BY <1>2, <1>4 DEF RInv, FlushesHoldTheLock

(* The steps of a flush before its answer.                                 *)
LEMMA FlushKeeps ==
    ASSUME RInv, NEW f \in Flushers, BeginFlush(f) \/ Select(f)
    PROVE  RInv'
  <1>0. /\ FlushesHoldTheLock /\ StateOK(state) /\ DOMAIN state = StateFields
        /\ DOMAIN flusher[f] = {"pc", "t", "batch"} /\ Kept(state, state)
    BY DEF RInv, StateOK, Kept, FlushesHoldTheLock
  <1>r. DOMAIN Resting = {"pc", "t", "batch"} /\ Resting.pc = "rest"
    BY DEF Resting
  <1>1. CASE BeginFlush(f)
    <2>1. flusher[f].pc = "waiting" /\ lock = Free /\ UNCHANGED << now, state >>
      BY <1>1 DEF BeginFlush, TakesFlushLock
    <2>2. Free \notin Flushers
      BY DEF Free, Flushers
    <2>3. state.http
      BY <1>0, <2>1 DEF FlushesHoldTheLock
    <2>4. CASE flusher' = Return(f) /\ UNCHANGED lock
      BY <1>0, <1>r, <2>1, <2>4, FlusherMoves, ZenonT(30) DEF Return
    <2>5. CASE /\ ~ (state.disabled \/ now < Gate(state) \/ ~ state.api_key)
               /\ flusher' = [flusher EXCEPT ![f].pc = "open", ![f].t = now]
               /\ lock' = f
      <3> DEFINE x == [flusher[f] EXCEPT !.pc = "open", !.t = now]
      <3>1. DOMAIN x = {"pc", "t", "batch"} /\ x.pc = "open"
        BY <1>0
      <3>2. flusher' = [flusher EXCEPT ![f] = x]
        BY <1>0, <2>5, ZenonT(30) DEF FlushesHoldTheLock
      <3>3. now >= Gate(state) /\ ~ state.disabled
        BY <1>0, <2>5 DEF RInv, StateOK, Gate, Larger
      <3> HIDE DEF x
      <3>4. \A g \in Flushers \ {f} : lock = g => lock' = g
        BY <2>1, <2>2
      <3> QED BY <1>0, <2>1, <2>3, <2>5, <3>1, <3>2, <3>3, <3>4, FlusherMoves, ZenonT(30)
    <2> QED BY <1>1, <2>4, <2>5 DEF BeginFlush
  <1>2. CASE Select(f)
    <2> DEFINE ready == Prepared(state, flusher[f].t)
               batch == Selected(ready)
    <2>1. flusher[f].pc = "open" /\ UNCHANGED now
      BY <1>2 DEF Select
    <2>2. Inside(f) /\ lock = f /\ ~ state.disabled /\ state.http
      BY <1>0, <2>1 DEF FlushesHoldTheLock, Inside
    <2>3. Kept(state, ready)
      BY <1>0, PreparedKeeps
    <2>4. DOMAIN ready = StateFields
      BY <1>0, <2>3 DEF Kept
    <2>5. \/ state' = ready /\ flusher' = Return(f)
          \/ /\ state' = [ready EXCEPT !.seq = @ + 1]
             /\ flusher' = [flusher EXCEPT ![f].pc = "posted", ![f].batch = batch]
             /\ UNCHANGED lock
      BY <1>2 DEF Select
    <2> HIDE DEF ready, batch
    <2>6. CASE state' = ready /\ flusher' = Return(f)
      <3>1. StateOK(state') /\ state'.http = state.http
        BY <1>0, <2>2, <2>3, <2>6, KeptOK, ZenonT(30) DEF Kept
      <3> QED BY <2>1, <2>2, <2>6, <3>1, FlushEnds
    <2>7. CASE /\ state' = [ready EXCEPT !.seq = @ + 1]
               /\ flusher' = [flusher EXCEPT ![f].pc = "posted", ![f].batch = batch]
               /\ UNCHANGED lock
      <3>1. Kept(ready, state')
        BY <2>4, <2>7 DEF Kept, StateFields
      <3>2. Kept(state, state')
        BY <2>3, <3>1, KeptTwice
      <3>3. StateOK(state')
        BY <1>0, <2>2, <3>2, KeptOK
      <3> DEFINE x == [flusher[f] EXCEPT !.pc = "posted", !.batch = batch]
      <3>4. DOMAIN x = {"pc", "t", "batch"} /\ x.pc = "posted"
        BY <1>0
      <3>5. flusher' = [flusher EXCEPT ![f] = x]
        BY <1>0, <2>7, ZenonT(30) DEF FlushesHoldTheLock
      <3> HIDE DEF x
      <3> QED BY <2>1, <2>2, <2>7, <3>2, <3>3, <3>4, <3>5, FlusherMoves, ZenonT(30)
    <2> QED BY <2>5, <2>6, <2>7
  <1> QED BY <1>1, <1>2

(* The worker's turn, close() and the end of the worker's runtime.         *)
LEMMA TurnKeeps == RInv /\ WorkerTurns => RInv'
  <1> SUFFICES ASSUME RInv, WorkerTurns PROVE RInv'
    OBVIOUS
  <1>0. /\ FlushesHoldTheLock /\ StateOK(state) /\ now \in Nat
        /\ "worker" \in Flushers /\ Kept(state, state)
        /\ DOMAIN flusher["worker"] = {"pc", "t", "batch"}
    BY DEF RInv, Kept, FlushesHoldTheLock, Flushers
  <1>1. UNCHANGED << now, lock >> /\ ~ state.disabled
    BY DEF WorkerTurns
  <1>2. CASE state.http
    <2> DEFINE x == [flusher["worker"] EXCEPT !.pc = "waiting"]
    <2>1. DOMAIN x = {"pc", "t", "batch"} /\ x.pc = "waiting"
      BY <1>0
    <2>2. flusher' = [flusher EXCEPT !["worker"] = x] /\ UNCHANGED state
      BY <1>2 DEF WorkerTurns
    <2> HIDE DEF x
    <2> QED BY <1>0, <1>1, <1>2, <2>1, <2>2, FlusherMoves, ZenonT(30)
  <1>3. CASE ~ state.http
    <2>1. state' = SetBackoff(state, now, None) /\ UNCHANGED flusher /\ None \in Int
      BY <1>3 DEF WorkerTurns, None
    <2>2. StateOK(state') /\ state'.http = state.http
      BY <1>0, <2>1, SetBackoffOK, ZenonT(30)
    <2>3. \A f \in Flushers : flusher[f].pc \in {"rest", "gone"}
      BY <1>0, <1>3 DEF FlushesHoldTheLock
    <2>4. FlushesHoldTheLock'
      BY <1>0, <2>1, <2>3 DEF FlushesHoldTheLock, Inside
    <2> QED BY <1>0, <1>1, <2>2, <2>4 DEF RInv
  <1> QED BY <1>2, <1>3

(* So do close and the end of the worker's runtime.                        *)
LEMMA CloseKeeps == RInv /\ (Close \/ RuntimeStops) => RInv'
  <1> SUFFICES ASSUME RInv, Close \/ RuntimeStops PROVE RInv'
    OBVIOUS
  <1>0. /\ FlushesHoldTheLock /\ StateOK(state) /\ now \in Nat /\ Kept(state, state)
        /\ "worker" \in Flushers /\ "close" \in Flushers
    BY DEF RInv, Kept, Flushers
  <1>1. CASE Close
    <2>1. ASSUME NEW b
          PROVE  LET n == [state EXCEPT !.closed = b]
                 IN  Kept(state, n) /\ StateOK(n)
      BY <1>0 DEF StateOK, Kept, StateFields, Emptied
    <2>2. UNCHANGED << now, lock >> /\ state' = [state EXCEPT !.closed = TRUE]
      BY <1>1 DEF Close
    <2>3. Kept(state, state') /\ StateOK(state')
      BY <2>1, <2>2
    <2>4. CASE state.http
      <3> DEFINE x == [flusher["close"] EXCEPT !.pc = "waiting"]
      <3>1. DOMAIN x = {"pc", "t", "batch"} /\ x.pc = "waiting"
        BY <1>0 DEF FlushesHoldTheLock
      <3>2. flusher' = [flusher EXCEPT !["close"] = x]
        BY <1>1, <2>4 DEF Close
      <3> HIDE DEF x
      <3> QED BY <1>0, <2>2, <2>3, <2>4, <3>1, <3>2, FlusherMoves, ZenonT(30)
    <2>5. CASE ~ state.http
      <3>1. UNCHANGED flusher
        BY <1>1, <2>5 DEF Close
      <3> QED BY <1>0, <2>2, <2>3, <3>1, BufferStep
    <2> QED BY <2>4, <2>5
  <1>2. CASE RuntimeStops
    <2> DEFINE x == [Resting EXCEPT !.pc = "gone"]
    <2>1. DOMAIN x = {"pc", "t", "batch"} /\ x.pc = "gone"
      BY DEF Resting
    <2>2. /\ flusher' = [flusher EXCEPT !["worker"] = x]
          /\ lock' = IF lock = "worker" THEN Free ELSE lock
          /\ UNCHANGED << now, state >>
      BY <1>2 DEF RuntimeStops
    <2> HIDE DEF x
    <2> QED BY <1>0, <2>1, <2>2, FlusherMoves, ZenonT(30)
  <1> QED BY <1>1, <1>2

-----------------------------------------------------------------------------
(* Every step keeps the invariant.                                         *)
LEMMA RStep == RInv /\ [Next]_vars => RInv'
  <1> SUFFICES ASSUME RInv, [Next]_vars PROVE RInv'
    OBVIOUS
  <1>0. StateOK(state) /\ Kept(state, state) /\ now \in Nat
    BY DEF RInv, Kept
  <1>1. CASE UNCHANGED vars \/ Tick \/ \E c \in Callers : Sample(c)
    <2>1. UNCHANGED << state, flusher, lock >> /\ now' \in {now, now + 1}
      BY <1>1 DEF vars, Tick, Sample
    <2> QED BY <1>0, <2>1, BufferStep
  <1>2. CASE \E c \in Callers : Record(c)
    BY <1>2, RecordKeeps
  <1>3. CASE \E f \in Flushers : BeginFlush(f) \/ Select(f) \/ Answered(f) \/ SendFails(f)
    BY <1>3, FlushKeeps, AnswerKeeps
  <1> QED BY <1>1, <1>2, <1>3, TurnKeeps, CloseKeeps DEF Next

(* For every configuration: a batch is posted only past the backoff and    *)
(* the pause and while the reporter is on, though flush_with looks at them *)
(* in an earlier critical section; and after the control plane said off    *)
(* nothing is kept.                                                        *)
THEOREM GatesHold == Spec => PostsRespectTheGate
  <1>1. Spec => []RInv
    BY InitRInv, RStep, PTL DEF Spec
  <1>2. RInv /\ RInv' =>
          (/\ \A f \in Flushers :
                flusher[f].pc = "open" /\ flusher'[f].pc = "posted" =>
                    ~ state.disabled /\ now >= Gate(state)
           /\ state'.disabled =>
                /\ state'.events = << >> /\ state'.counters = << >>
                /\ state'.closed_windows = << >>
                /\ state'.retained = 0 /\ state'.dropped = 0)
    BY DEF RInv, FlushesHoldTheLock, Inside, StateOK, Emptied
  <1> QED BY <1>1, <1>2, PTL DEF PostsRespectTheGate
=============================================================================
