------------------------------ MODULE Reporter ------------------------------
(***************************************************************************)
(* The beacon reporter's buffers (telemetry/reporter.rs): the sampled      *)
(* events, the open and the closed counter windows, the drop count, the    *)
(* backoff and pause gates, and the flush that selects a batch, posts it   *)
(* once and applies the answer.                                            *)
(*                                                                         *)
(* Concurrent actors: any number of callers finishing calls, the worker    *)
(* task, and the thread of close().  Each critical section of the state    *)
(* mutex is one step.  A caller and a flush read the clock BEFORE they     *)
(* take the mutex, so the time they use may be stale.  When the worker     *)
(* flushes is left open here (see Worker); the gates are not.              *)
(*                                                                         *)
(* Bytes are counted in units: an event and a counter row weigh one each.  *)
(***************************************************************************)
EXTENDS CounterFold, Gates

CONSTANTS
    Callers,            \* concurrent finishers of calls
    Requests,           \* what they report: [ok, certain, counters]
    Answers,            \* what the control plane answers (see AnswerType)
    Rates,              \* sample rates, in percent
    MaxEvents,          \* TELEMETRY_MAX_EVENTS
    MaxBatchEvents,     \* TELEMETRY_MAX_BATCH_EVENTS
    MaxBatchCounters,   \* TELEMETRY_MAX_BATCH_COUNTERS
    MaxBatchBytes,      \* MAX_BATCH_BYTES
    RetentionBytes,     \* TELEMETRY_RETENTION_BYTES
    RetentionSeconds,   \* TELEMETRY_RETENTION_SECONDS
    Minute,             \* the length of a counter window
    InitialRate,        \* the client's telemetry_sample_rate
    InitialInterval,    \* TELEMETRY_FLUSH_SECONDS
    MaxTime,            \* bound: the clock stops here
    MaxRequests         \* bound: calls reported

VARIABLES now, state, caller, flusher, lock, server, ledger

vars == << now, state, caller, flusher, lock, server, ledger >>

Flushers == {"worker", "close"}
Free == "free"

AnswerType == [status : {202, 400, 413, 429}, off : BOOLEAN,
               retry_after : Int, rate : Int, interval : Int, pause : Int]

ASSUME ReporterAssumption ==
    /\ Answers \subseteq AnswerType
    /\ Rates \subseteq 0 .. 100 /\ InitialRate \in Rates
    /\ InitialInterval <= BackoffMax
    /\ {MaxEvents, MaxBatchEvents, MaxBatchCounters, MaxBatchBytes, Minute,
        InitialInterval} \subseteq Nat \ {0}
    /\ {RetentionBytes, RetentionSeconds, MaxTime, MaxRequests} \subseteq Nat

-----------------------------------------------------------------------------
(* State: the operations under the mutex, as operators on the state.       *)
InitialState(key, client) ==
    [api_key |-> key, http |-> client,
     rate |-> InitialRate, interval |-> InitialInterval,
     events |-> << >>, next_event |-> 0, events_bytes |-> 0,
     window_start |-> None, counters |-> << >>,
     closed_windows |-> << >>, next_window |-> 0, retained |-> 0,
     dropped |-> 0, seq |-> 0,
     backoff |-> BackoffMin, backoff_until |-> 0, paused_until |-> 0,
     disabled |-> FALSE, closed |-> FALSE, worker_started |-> FALSE]

NoBatch == [events |-> << >>, refs |-> << >>, dropped |-> 0]
Resting == [pc |-> "rest", t |-> 0, batch |-> NoBatch]
Idle == [pc |-> "idle"]

MinuteStart(t) == (t \div Minute) * Minute

WindowSize(rows) == Len(rows)

SizeOf(windows) == FoldLeft(LAMBDA n, w : n + w.size, 0, windows)
RowsOf(windows) == FoldLeft(LAMBDA n, w : n + Len(w.rows), 0, windows)

DropOldest(s, k) ==
    LET gone == SubSeq(s.closed_windows, 1, k)
    IN  [s EXCEPT !.closed_windows = SubSeq(@, k + 1, Len(@)),
                  !.retained = Minus(@, SizeOf(gone)),
                  !.dropped = @ + RowsOf(gone)]

(* The windows the age loop pops: the longest expired prefix.              *)
Expired(s, t) ==
    Min({k \in 0 .. Len(s.closed_windows) :
            k < Len(s.closed_windows) =>
                t - s.closed_windows[k + 1].start <= RetentionSeconds})

(* The windows the byte loop pops: the shortest prefix that makes room.    *)
Oversize(s) ==
    Min({k \in 0 .. Len(s.closed_windows) :
            \/ k = Len(s.closed_windows)
            \/ s.retained - SizeOf(SubSeq(s.closed_windows, 1, k))
                  <= RetentionBytes})

PruneByAgeOnly(s, t) == DropOldest(s, Expired(s, t))

PruneWindows(s, t) ==
    LET young == DropOldest(s, Expired(s, t))
    IN  DropOldest(young, Oversize(young))

CloseCurrentWindow(s, t) ==
    IF s.window_start = None \/ s.counters = << >> THEN s
    ELSE PruneWindows(
            [s EXCEPT !.closed_windows =
                          Append(@, [id |-> s.next_window,
                                     start |-> s.window_start,
                                     rows |-> s.counters,
                                     size |-> WindowSize(s.counters)]),
                      !.counters = << >>,
                      !.next_window = @ + 1,
                      !.retained = @ + WindowSize(s.counters),
                      !.window_start = MinuteStart(t)], t)

RollWindow(s, t) ==
    IF s.window_start = None
    THEN [s EXCEPT !.window_start = MinuteStart(t)]
    ELSE IF MinuteStart(t) > s.window_start
    THEN [CloseCurrentWindow(s, t) EXCEPT !.window_start = MinuteStart(t)]
    ELSE s

OldestWhateverItIs(events) == 1

(* The oldest success goes first, then the oldest event.                   *)
Victim(events) ==
    LET successes == {i \in DOMAIN events : events[i].ok}
    IN  IF successes = {} THEN 1 ELSE Min(successes)

DropBufferedEvent(s) ==
    [s EXCEPT !.events = RemoveAt(@, Victim(@)),
              !.events_bytes = Minus(@, 1),
              !.dropped = @ + 1]

AppendEvent(s, ok) ==
    LET room == IF Len(s.events) >= MaxEvents THEN DropBufferedEvent(s) ELSE s
    IN  [room EXCEPT !.events = Append(@, [id |-> room.next_event, ok |-> ok]),
                     !.next_event = @ + 1,
                     !.events_bytes = @ + 1]

(* select_batch: close the open window, then take the oldest events and    *)
(* the oldest counters, then trim events and after them counters from the  *)
(* tail until the body fits.                                               *)
Prepared(s, t) == PruneWindows(CloseCurrentWindow(RollWindow(s, t), t), t)

CounterRefs(windows) ==
    FlattenSeq([w \in DOMAIN windows |->
        [r \in DOMAIN windows[w].rows |->
            [window |-> windows[w].id, key |-> windows[w].rows[r].key,
             n |-> windows[w].rows[r].n]]])

Prefix(s, n) == SubSeq(s, 1, Smaller(n, Len(s)))

Selected(s) ==
    LET events == Prefix(s.events, MaxBatchEvents)
        refs == Prefix(CounterRefs(s.closed_windows), MaxBatchCounters)
        fitting == Prefix(events, Minus(MaxBatchBytes, Len(refs)))
    IN  [events |-> fitting,
         refs |-> Prefix(refs, MaxBatchBytes),
         dropped |-> s.dropped]

Empty(selected) == selected.events = << >> /\ selected.refs = << >>

Ids(selected) == {selected.events[i].id : i \in DOMAIN selected.events}

Refers(selected, window, k) ==
    \E i \in DOMAIN selected.refs :
        selected.refs[i].window = window /\ selected.refs[i].key = k

(* remove_selected retires by identity: records arrive and are evicted     *)
(* while the POST is in flight.                                            *)
Retain(window, selected) ==
    LET left == SelectSeq(window.rows,
                          LAMBDA row : ~ Refers(selected, window.id, row.key))
    IN  [window EXCEPT !.rows = left, !.size = WindowSize(left)]

RemoveByPosition(s, selected) ==
    LET events == SubSeq(s.events, Len(selected.events) + 1, Len(s.events))
    IN  [s EXCEPT !.events = events, !.events_bytes = Len(events)]

RemoveSelected(s, selected) ==
    LET events == SelectSeq(s.events, LAMBDA e : e.id \notin Ids(selected))
        windows == [i \in DOMAIN s.closed_windows |->
                       Retain(s.closed_windows[i], selected)]
    IN  [s EXCEPT !.events = events,
                  !.events_bytes = Len(events),
                  !.closed_windows = SelectSeq(windows, LAMBDA w : w.rows # << >>),
                  !.retained = Minus(@, SizeOf(s.closed_windows))
                               + SizeOf(windows)]

Disable(s) ==
    [s EXCEPT !.disabled = TRUE, !.events = << >>, !.events_bytes = 0,
              !.counters = << >>, !.closed_windows = << >>, !.retained = 0,
              !.dropped = 0]

-----------------------------------------------------------------------------
(* server and ledger are histories: what the control plane has taken in,   *)
(* and what was handed to the reporter, retired by it, or lost by it.      *)
EventIds(s) == {s.events[i].id : i \in DOMAIN s.events}

(* The open window is known by the id it will be closed under.             *)
WindowsOf(s) == {[id |-> w.id, rows |-> w.rows] : w \in ToSet(s.closed_windows)}
                    \cup {[id |-> s.next_window, rows |-> s.counters]}

CountsIn(windows) == MapThenSumSet(LAMBDA w : TotalRequests(w.rows), windows)
RowsIn(windows) == MapThenSumSet(LAMBDA w : Len(w.rows), windows)

(* What a step from s to s2 evicted or pruned.                             *)
Lose(l, s, s2) ==
    LET events == EventIds(s) \ EventIds(s2)
        windows == {w \in WindowsOf(s) :
                       w.id \notin {v.id : v \in WindowsOf(s2)}}
    IN  [l EXCEPT !.lost = @ + Cardinality(events) + RowsIn(windows),
                  !.lost_events = @ + Cardinality(events),
                  !.lost_count = @ + CountsIn(windows)]

(* What of the batch is still buffered in s when its answer arrives.       *)
HeldEvents(s, batch) == EventIds(s) \cap Ids(batch)
HeldRefs(s, batch) ==
    SelectSeq(batch.refs, LAMBDA ref :
        \E w \in WindowsOf(s) : w.id = ref.window /\ HasKey(w.rows, ref.key))

Items(batch) == {[event |-> id] : id \in Ids(batch)} \cup ToSet(batch.refs)

Accept(v, batch) ==
    [v EXCEPT !.items = @ \cup Items(batch),
              !.again = @ \/ Items(batch) \cap v.items # {}]

Init ==
    /\ now = 0
    /\ \E key, client \in BOOLEAN : state = InitialState(key, client)
    /\ caller = [c \in Callers |-> Idle]
    /\ flusher = [f \in Flushers |-> Resting]
    /\ lock = Free
    /\ server = [items |-> {}, again |-> FALSE, answer_lost |-> FALSE]
    /\ ledger = [requests |-> 0, given |-> 0, acked |-> 0, acked_events |-> 0,
                 lost |-> 0, lost_events |-> 0, lost_count |-> 0, told |-> 0,
                 refused |-> FALSE]

Tick ==
    /\ now < MaxTime
    /\ now' = now + 1
    /\ UNCHANGED << state, caller, flusher, lock, server, ledger >>

-----------------------------------------------------------------------------
(* on_request.  The clock and the rate are read first; the mutex is taken  *)
(* again for the rest.  Failed, retried and slow calls are always kept.    *)
Samples(request, rate) ==
    IF request.certain THEN {TRUE}
    ELSE {keep \in BOOLEAN : IF keep THEN rate > 0 ELSE rate < 100}

Sample(c) ==
    /\ caller[c] = Idle
    /\ ~ state.closed
    /\ ledger.requests < MaxRequests
    /\ \E request \in Requests : \E keep \in Samples(request, state.rate) :
          caller' = [caller EXCEPT ![c] =
                        [pc |-> "sampled", t |-> now, request |-> request,
                         keep |-> keep]]
    /\ ledger' = [ledger EXCEPT !.requests = @ + 1]
    /\ UNCHANGED << now, state, flusher, lock, server >>

(* start_worker: only on a runtime; without one the next record tries      *)
(* again.                                                                  *)
StartWorker(s, runtime) ==
    IF s.disabled \/ s.closed \/ ~ runtime THEN s
    ELSE [s EXCEPT !.worker_started = TRUE]

Merged(s, request, keep, t) ==
    LET rolled == RollWindow(s, t)
        merged == [rolled EXCEPT !.counters = MergeCounters(@, request.counters)]
    IN  IF keep THEN AppendEvent(merged, request.ok) ELSE merged

RecordedAnyway(s, request, keep, t) == Merged(s, request, keep, t)

Recorded(s, request, keep, t) ==
    IF s.disabled \/ s.closed THEN s ELSE Merged(s, request, keep, t)

Record(c) ==
    /\ caller[c].pc = "sampled"
    /\ \E runtime \in BOOLEAN :
          LET request == caller[c].request
              s == Recorded(state, request, caller[c].keep, caller[c].t)
          IN  /\ state' = StartWorker(s, runtime)
              /\ ledger' = Lose([ledger EXCEPT !.given = @ +
                                    TotalRequests(request.counters)], state, s)
    /\ caller' = [caller EXCEPT ![c] = Idle]
    /\ UNCHANGED << now, flusher, lock, server >>

-----------------------------------------------------------------------------
(* flush_with, run by the worker and by the thread of close().             *)

(* The worker's loop decides to flush: its countdown is abstracted away,   *)
(* the gate it waits for is not.                                           *)
WorkerTurns ==
    /\ flusher["worker"].pc = "rest"
    /\ now >= Gate(state)
    /\ state.worker_started /\ ~ state.closed /\ ~ state.disabled
    /\ IF state.http
       THEN /\ flusher' = [flusher EXCEPT !["worker"].pc = "waiting"]
            /\ UNCHANGED state
       ELSE /\ state' = SetBackoff(state, now, None)
            /\ UNCHANGED flusher
    /\ UNCHANGED << now, caller, lock, server, ledger >>

(* close() runs when the last handle is dropped: no call is in flight.     *)
Close ==
    /\ ~ state.closed
    /\ \A c \in Callers : caller[c] = Idle
    /\ state' = [state EXCEPT !.closed = TRUE]
    /\ flusher' = IF state.http THEN [flusher EXCEPT !["close"].pc = "waiting"]
                                ELSE flusher
    /\ UNCHANGED << now, caller, lock, server, ledger >>

Return(f) == [flusher EXCEPT ![f] = Resting]

WithoutFlushLock(f) == TRUE

(* _serialised: one flush at a time, the worker's or the one of close().   *)
TakesFlushLock(f) == lock = Free

(* flush_lock, the clock, the gate and the key.                            *)
BeginFlush(f) ==
    /\ flusher[f].pc = "waiting"
    /\ TakesFlushLock(f)
    /\ IF state.disabled \/ now < Gate(state) \/ ~ state.api_key
       THEN flusher' = Return(f) /\ UNCHANGED lock
       ELSE /\ flusher' = [flusher EXCEPT ![f].pc = "open", ![f].t = now]
            /\ lock' = f
    /\ UNCHANGED << now, state, caller, server, ledger >>

Select(f) ==
    /\ flusher[f].pc = "open"
    /\ LET ready == Prepared(state, flusher[f].t)
           batch == Selected(ready)
       IN  /\ ledger' = Lose(ledger, state, ready)
           /\ IF Empty(batch)
              THEN /\ state' = ready
                   /\ flusher' = Return(f)
                   /\ lock' = Free
              ELSE /\ state' = [ready EXCEPT !.seq = @ + 1]
                   /\ flusher' = [flusher EXCEPT ![f].pc = "posted",
                                                 ![f].batch = batch]
                   /\ UNCHANGED lock
    /\ UNCHANGED << now, caller, server >>

EndFlush(f) == flusher' = Return(f) /\ lock' = Free

(* handle_response, an answer the control plane gave at time now.          *)
HandleResponse(s, batch, a, t) ==
    CASE a.off \/ a.status = 400 -> Disable(s)
      [] ~ a.off /\ a.status = 202 ->
            ApplyPolicy(ResetBackoff([RemoveSelected(s, batch) EXCEPT
                            !.dropped = Minus(@, batch.dropped)]), a, t)
      [] ~ a.off /\ a.status = 413 ->
            [RemoveSelected(s, batch) EXCEPT
                !.dropped = @ + Len(batch.events) + Len(batch.refs)]
      [] OTHER -> SetBackoff(s, t, a.retry_after)

Answered(f) ==
    /\ flusher[f].pc = "posted"
    /\ \E a \in Answers :
        LET batch == flusher[f].batch
            events == Cardinality(HeldEvents(state, batch))
            refs == HeldRefs(state, batch)
        IN  /\ state' = HandleResponse(state, batch, a, now)
            /\ server' = IF a.status = 202 THEN Accept(server, batch) ELSE server
            /\ ledger' =
                 CASE a.status = 202 ->
                        [ledger EXCEPT !.acked_events = @ + events,
                                       !.acked = @ + TotalRequests(refs),
                                       !.told = @ + batch.dropped]
                   [] a.status = 413 ->
                        [ledger EXCEPT !.lost = @ + events + Len(refs),
                                       !.lost_events = @ + events,
                                       !.lost_count = @ + TotalRequests(refs),
                                       !.refused = TRUE]
                   [] OTHER -> ledger
    /\ EndFlush(f)
    /\ UNCHANGED << now, caller >>

(* No answer: the batch may or may not have been taken in.                 *)
SendFails(f) ==
    /\ flusher[f].pc = "posted"
    /\ state' = SetBackoff(state, now, None)
    /\ \/ UNCHANGED server
       \/ server' = [Accept(server, flusher[f].batch) EXCEPT !.answer_lost = TRUE]
    /\ EndFlush(f)
    /\ UNCHANGED << now, caller, ledger >>

(* The runtime the worker was spawned on shuts down: the task is dropped   *)
(* where it stands and its flush lock with it.                             *)
RuntimeStops ==
    /\ state.worker_started
    /\ flusher["worker"].pc # "gone"
    /\ flusher' = [flusher EXCEPT !["worker"] = [Resting EXCEPT !.pc = "gone"]]
    /\ lock' = IF lock = "worker" THEN Free ELSE lock
    /\ \/ UNCHANGED server
       \/ /\ flusher["worker"].pc = "posted"
          /\ server' = [Accept(server, flusher["worker"].batch)
                           EXCEPT !.answer_lost = TRUE]
    /\ UNCHANGED << now, state, caller, ledger >>

Next ==
    \/ Tick
    \/ \E c \in Callers : Sample(c) \/ Record(c)
    \/ WorkerTurns
    \/ Close
    \/ \E f \in Flushers : BeginFlush(f) \/ Select(f) \/ Answered(f) \/ SendFails(f)
    \/ RuntimeStops

Spec == Init /\ [][Next]_vars
-----------------------------------------------------------------------------
Buffered(s) == CountsIn(WindowsOf(s))

(* The memory bounds of the module doc hold after every step, and they are *)
(* about what is really there: the sizes kept incrementally are the sizes  *)
(* of the buffers, keys are unique within a window, the event buffer, the  *)
(* retained windows and the open window stay under their caps, and no      *)
(* batch exceeds what the control plane takes.  Only the holder of         *)
(* flush_lock is inside a flush.                                           *)
BuffersBounded ==
    /\ state.events_bytes = Len(state.events) /\ Len(state.events) <= MaxEvents
    /\ state.retained = SizeOf(state.closed_windows)
    /\ state.retained <= RetentionBytes
    /\ Len(state.counters) <= MaxWindowKeys
    /\ \A w \in WindowsOf(state) : \A i, j \in DOMAIN w.rows :
          w.rows[i].key = w.rows[j].key => i = j
    /\ \A f \in Flushers : LET batch == flusher[f].batch IN
          /\ flusher[f].pc \in {"open", "posted"} <=> lock = f
          /\ Len(batch.events) <= MaxBatchEvents
          /\ Len(batch.refs) <= MaxBatchCounters
          /\ Len(batch.events) + Len(batch.refs) <= MaxBatchBytes

(* Nothing vanishes.  Until the control plane switches telemetry off,      *)
(* every request counted by on_request is in the open window, in a closed  *)
(* one, retired by a 202 with the count that was sent, or in a window that *)
(* was lost; every event appended is buffered, retired or lost; and every  *)
(* loss is owned up to: the drops the control plane was told of and those  *)
(* still to be told are all the events and rows lost.  A 413 counts the    *)
(* whole batch, also what was evicted while it was in flight, so after one *)
(* they are at least that many.                                            *)
NothingVanishes ==
    ~ state.disabled =>
        /\ ledger.given = Buffered(state) + ledger.acked + ledger.lost_count
        /\ state.next_event = Len(state.events) + ledger.acked_events
                                                + ledger.lost_events
        /\ state.dropped + ledger.told >= ledger.lost
        /\ ~ ledger.refused => state.dropped + ledger.told = ledger.lost

(* Delivery is at least once, and twice only when an answer was lost: the  *)
(* worker and close() never post the same event or row side by side.       *)
ResentOnlyAfterLostAnswer == server.again => server.answer_lost

(* A batch is posted only past both gates and never when disabled, though  *)
(* the gate was checked in an earlier critical section; and once the       *)
(* control plane says off nothing is kept, whoever was between its two     *)
(* critical sections at that moment.                                       *)
PostsRespectTheGate ==
    [][/\ \A f \in Flushers :
            flusher[f].pc = "open" /\ flusher'[f].pc = "posted" =>
                ~ state.disabled /\ now >= Gate(state)
       /\ state'.disabled =>
            /\ state'.events = << >> /\ state'.counters = << >>
            /\ state'.closed_windows = << >>
            /\ state'.retained = 0 /\ state'.dropped = 0]_vars

(* The cap on events costs successes first: recording a call evicts a      *)
(* failure only when no success is buffered.                               *)
FailuresOutliveSuccesses ==
    [][\A c \in Callers : caller[c] # Idle /\ caller'[c] = Idle =>
          \A i \in DOMAIN state.events :
              state.events[i].id \notin EventIds(state') =>
                  \/ state.events[i].ok
                  \/ \A j \in DOMAIN state.events : ~ state.events[j].ok]_vars

(* reporter.rs: closed_windows lists the windows "oldest first", and       *)
(* retention is applied "oldest-first" from its front.                     *)
WindowsOldestFirst ==
    \A i, j \in DOMAIN state.closed_windows :
        i < j => state.closed_windows[i].start <= state.closed_windows[j].start
=============================================================================
