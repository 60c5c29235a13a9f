------------------------------- MODULE Worker -------------------------------
(***************************************************************************)
(* When the beacon goes out (telemetry/reporter.rs): the worker's loop     *)
(* with its deadline, its wake-up permit and its urgent flushes, and       *)
(* close() with the thread of its final flush.  What is sent is counted    *)
(* only; Reporter models the buffers.                                      *)
(*                                                                         *)
(* Every time is kept as the number of ticks until it is reached, so that  *)
(* the clock may run for ever.  A worker may be late for anything; being   *)
(* preempted between the decision to sleep and the sleep is being late.    *)
(*                                                                         *)
(* pc["worker"]: none (not started), top, drowsy (about to await), asleep, *)
(*   flush, lock (waiting for flush_lock), posted, after, gone (returned), *)
(*   dead (its runtime is)                                                 *)
(* pc["thread"]: none, lock, posted, done                                  *)
(* closer.pc:    open, closing (closed is set), waiting, returned          *)
(***************************************************************************)
EXTENDS Gates

CONSTANTS
    Answers,            \* what the control plane answers (see AnswerType)
    InitialInterval,    \* TELEMETRY_FLUSH_SECONDS
    CloseTimeout,       \* CLOSE_TIMEOUT
    UrgentCount,        \* URGENT_EVENT_COUNT
    MaxBatch,           \* records per batch
    MaxLag,             \* bound: how stale a caller's clock may be
    MaxPending          \* bound: records waiting

VARIABLES state, permit, pc, sleep, batch, lock, closer, client, quiet

workerVars == << state, permit, pc, sleep, batch, lock, closer, client, quiet >>

AnswerType == [kind : {"accepted", "off", "too_large", "busy"},
               retry_after : Int, rate : Int, interval : Int, pause : Int]

ASSUME WorkerAssumption ==
    /\ Answers \subseteq AnswerType
    /\ InitialInterval \in 1 .. BackoffMax
    /\ {CloseTimeout, MaxLag} \subseteq Nat
    /\ {UrgentCount, MaxBatch, MaxPending} \subseteq Nat \ {0}

Flushers == {"worker", "thread"}
Free == "free"

(* client is fixed: can its HTTP client be built, has it a key, is its     *)
(* last handle dropped on the only thread of the worker's runtime?         *)
WorkerInit ==
    /\ state = [pending |-> 0, rate |-> 0, interval |-> InitialInterval,
                backoff |-> BackoffMin, backoff_until |-> 0,
                paused_until |-> 0, next_flush_at |-> 0,
                urgent_not_before |-> 0, urgent_flush |-> FALSE,
                disabled |-> FALSE, closed |-> FALSE, worker_started |-> FALSE]
    /\ permit = FALSE
    /\ pc = [f \in Flushers |-> "none"]
    /\ sleep = 0
    /\ batch = [f \in Flushers |-> 0]
    /\ lock = Free
    /\ closer = [pc |-> "open", timer |-> 0]
    /\ client \in [http : BOOLEAN, key : BOOLEAN, blocks : BOOLEAN]
    /\ quiet = BackoffMax

Tick ==
    /\ state' = [state EXCEPT !.backoff_until = Minus(@, 1),
                              !.paused_until = Minus(@, 1),
                              !.next_flush_at = Minus(@, 1),
                              !.urgent_not_before = Minus(@, 1)]
    /\ sleep' = Minus(sleep, 1)
    /\ closer' = [closer EXCEPT !.timer = Minus(@, 1)]
    /\ quiet' = Smaller(quiet + 1, BackoffMax)
    /\ UNCHANGED << permit, pc, batch, lock, client >>

-----------------------------------------------------------------------------
(* on_request, as far as it concerns the worker.                           *)
Urgent(s) == s.pending >= UrgentCount

StartWorker(s, runtime, lag) ==
    IF s.worker_started \/ ~ runtime THEN s
    ELSE [s EXCEPT !.next_flush_at = Minus(s.interval, lag),
                   !.worker_started = TRUE]

WakesOnlySleepers == permit \/ pc["worker"] = "asleep"

(* Notify::notify_one: a permit is kept for the next notified().           *)
NotifyOne == TRUE

Record ==
    /\ ~ state.disabled /\ ~ state.closed
    /\ state.pending < MaxPending
    /\ \E runtime \in BOOLEAN, lag \in 0 .. MaxLag :
          LET s == StartWorker([state EXCEPT !.pending = @ + 1], runtime, lag)
          IN  /\ state' = [s EXCEPT !.urgent_flush = @ \/ Urgent(s)]
              /\ permit' = IF Urgent(s) THEN NotifyOne ELSE permit
              /\ pc' = IF s.worker_started /\ ~ state.worker_started
                       THEN [pc EXCEPT !["worker"] = "top"] ELSE pc
    /\ UNCHANGED << sleep, batch, lock, closer, client, quiet >>

-----------------------------------------------------------------------------
(* The worker's loop.  It cannot run while close() blocks its only thread. *)
WorkerRuns == client.blocks => closer.pc \in {"open", "returned"}

IgnoresSpacing(s) == s.urgent_flush /\ Gate(s) = 0

UrgentDue(s) == s.urgent_flush /\ Gate(s) = 0 /\ s.urgent_not_before = 0

Stopped(s) == s.closed \/ s.disabled

(* How long to sleep if there is nothing to do.                            *)
Wait(s) == Larger(s.next_flush_at, Gate(s))

Decide ==
    /\ pc["worker"] = "top"
    /\ \/ /\ Stopped(state)
          /\ pc' = [pc EXCEPT !["worker"] = "gone"]
          /\ UNCHANGED << state, sleep >>
       \/ /\ ~ Stopped(state) /\ UrgentDue(state)
          /\ state' = [state EXCEPT !.urgent_flush = FALSE]
          /\ pc' = [pc EXCEPT !["worker"] = "flush"]
          /\ UNCHANGED sleep
       \/ /\ ~ Stopped(state) /\ ~ UrgentDue(state) /\ Wait(state) > 0
          /\ sleep' = Wait(state)
          /\ pc' = [pc EXCEPT !["worker"] = "drowsy"]
          /\ UNCHANGED state
       \/ /\ ~ Stopped(state) /\ ~ UrgentDue(state) /\ Wait(state) = 0
          /\ pc' = [pc EXCEPT !["worker"] = "flush"]
          /\ UNCHANGED << state, sleep >>
    /\ UNCHANGED << permit, batch, lock, closer, client, quiet >>

FallAsleep ==
    /\ pc["worker"] = "drowsy"
    /\ pc' = [pc EXCEPT !["worker"] = "asleep"]
    /\ UNCHANGED << state, permit, sleep, batch, lock, closer, client, quiet >>

SleepsUntilNotified ==
    /\ pc["worker"] = "asleep"
    /\ permit /\ permit' = FALSE
    /\ pc' = [pc EXCEPT !["worker"] = "top"]
    /\ UNCHANGED << state, sleep, batch, lock, closer, client, quiet >>

(* tokio::select! over notified() and the sleep.                           *)
WakeUp ==
    /\ pc["worker"] = "asleep"
    /\ \/ permit /\ permit' = FALSE
       \/ sleep = 0 /\ UNCHANGED permit
    /\ pc' = [pc EXCEPT !["worker"] = "top"]
    /\ UNCHANGED << state, sleep, batch, lock, closer, client, quiet >>

Flush ==
    /\ pc["worker"] = "flush"
    /\ IF client.http
       THEN pc' = [pc EXCEPT !["worker"] = "lock"] /\ UNCHANGED state
       ELSE /\ pc' = [pc EXCEPT !["worker"] = "after"]
            /\ state' = SetBackoff(state, 0, None)
    /\ UNCHANGED << permit, sleep, batch, lock, closer, client, quiet >>

(* Any attempt, also one that sent nothing, is followed by a full          *)
(* interval.                                                               *)
Reschedule ==
    /\ pc["worker"] = "after"
    /\ state' = [state EXCEPT !.next_flush_at = state.interval,
                              !.urgent_not_before = state.interval]
    /\ pc' = [pc EXCEPT !["worker"] = "top"]
    /\ quiet' = 0
    /\ UNCHANGED << permit, sleep, batch, lock, closer, client >>

-----------------------------------------------------------------------------
(* flush_with: the gate is checked and the batch selected under            *)
(* flush_lock; what arrives in between only makes the batch larger.        *)
Flushed(f) == [pc EXCEPT ![f] = IF f = "worker" THEN "after" ELSE "done"]

BeginFlush(f) ==
    /\ pc[f] = "lock" /\ lock = Free
    /\ IF state.disabled \/ Gate(state) > 0 \/ ~ client.key \/ state.pending = 0
       THEN pc' = Flushed(f) /\ UNCHANGED << lock, batch >>
       ELSE /\ pc' = [pc EXCEPT ![f] = "posted"]
            /\ lock' = f
            /\ batch' = [batch EXCEPT ![f] = Smaller(state.pending, MaxBatch)]
    /\ UNCHANGED << state, permit, sleep, closer, client, quiet >>

Retired(s, n) == [s EXCEPT !.pending = Minus(@, n)]

HandleResponse(s, n, a) ==
    CASE a.kind = "off" -> [s EXCEPT !.disabled = TRUE, !.pending = 0]
      [] a.kind = "accepted" -> ApplyPolicy(ResetBackoff(Retired(s, n)), a, 0)
      [] a.kind = "too_large" -> Retired(s, n)
      [] a.kind = "busy" -> SetBackoff(s, 0, a.retry_after)

EndFlush(f) ==
    /\ pc' = Flushed(f)
    /\ lock' = Free
    /\ batch' = [batch EXCEPT ![f] = 0]
    /\ UNCHANGED << permit, sleep, closer, client, quiet >>

Answered(f) ==
    /\ pc[f] = "posted"
    /\ \E a \in Answers : state' = HandleResponse(state, batch[f], a)
    /\ EndFlush(f)

SendFails(f) ==
    /\ pc[f] = "posted"
    /\ state' = SetBackoff(state, 0, None)
    /\ EndFlush(f)

RuntimeStops ==
    /\ WorkerRuns
    /\ pc["worker"] \notin {"none", "gone", "dead"}
    /\ pc' = [pc EXCEPT !["worker"] = "dead"]
    /\ lock' = IF lock = "worker" THEN Free ELSE lock
    /\ batch' = [batch EXCEPT !["worker"] = 0]
    /\ UNCHANGED << state, permit, sleep, closer, client, quiet >>

-----------------------------------------------------------------------------
(* close(), run by the drop of the last handle.                            *)
Close ==
    /\ closer.pc = "open"
    /\ state' = [state EXCEPT !.closed = TRUE]
    /\ closer' = [closer EXCEPT !.pc = "closing"]
    /\ UNCHANGED << permit, pc, sleep, batch, lock, client, quiet >>

(* Wake the worker, start the thread.  Without a thread close() returns;   *)
(* without a runtime or an HTTP client of its own the thread is done.      *)
SpawnFinalFlush ==
    /\ closer.pc = "closing"
    /\ permit' = NotifyOne
    /\ \/ /\ closer' = [closer EXCEPT !.pc = "returned"]
          /\ UNCHANGED pc
       \/ /\ closer' = [pc |-> "waiting", timer |-> CloseTimeout]
          /\ \E first \in (IF client.http THEN {"lock", "done"} ELSE {"done"}) :
                pc' = [pc EXCEPT !["thread"] = first]
    /\ UNCHANGED << state, sleep, batch, lock, client, quiet >>

WaitsForThread == pc["thread"] = "done"

ReceivesOrTimesOut == pc["thread"] = "done" \/ closer.timer = 0

CloseReturns ==
    /\ closer.pc = "waiting"
    /\ ReceivesOrTimesOut
    /\ closer' = [closer EXCEPT !.pc = "returned"]
    /\ UNCHANGED << state, permit, pc, sleep, batch, lock, client, quiet >>

-----------------------------------------------------------------------------
WorkerLoop ==
    WorkerRuns /\ (Decide \/ FallAsleep \/ WakeUp \/ Flush \/ Reschedule)

Posting(f) ==
    (f = "worker" => WorkerRuns) /\ (BeginFlush(f) \/ Answered(f) \/ SendFails(f))

CloserSteps == SpawnFinalFlush \/ CloseReturns

WorkerNext ==
    \/ Tick
    \/ Record
    \/ WorkerLoop
    \/ \E f \in Flushers : Posting(f)
    \/ RuntimeStops
    \/ Close
    \/ CloserSteps

(* Time passes, and what is ready is run: by the worker's runtime while it *)
(* lives, and by the operating system.  Every POST ends, by its timeout if *)
(* by nothing else.  Nobody has to record, to close, or to keep a runtime. *)
WorkerFairness ==
    /\ WF_workerVars(Tick)
    /\ WF_workerVars(WorkerLoop)
    /\ \A f \in Flushers : WF_workerVars(Posting(f))
    /\ WF_workerVars(CloserSteps)

WorkerSpec == WorkerInit /\ [][WorkerNext]_workerVars /\ WorkerFairness

-----------------------------------------------------------------------------
(* No wake-up is lost: a sleeping worker that a full buffer or close()     *)
(* needs has a permit waiting for it, or its sleep is over (the flag is    *)
(* set under the mutex, the permit after it, the decision to sleep before  *)
(* either).                                                                *)
NoLostWakeUp ==
    pc["worker"] \in {"drowsy", "asleep"} =>
        \/ permit \/ sleep = 0
        \/ closer.pc = "closing"
        \/ ~ Stopped(state) /\ ~ UrgentDue(state)

(* Flushes keep their distance: after any attempt, even with a backlog     *)
(* that is urgent, the worker starts the next one no sooner than a full    *)
(* interval later (urgent_not_before), the longer one if the answer just   *)
(* imposed it, and never inside a backoff or a pause.                      *)
FlushesKeepTheirDistance ==
    [][pc["worker"] = "top" /\ pc'["worker"] = "flush"
          => quiet >= state.interval /\ Gate(state) = 0]_workerVars

(* What is buffered goes out: while its runtime lives and the reporter is  *)
(* on, a started worker that can post eventually does, through any number  *)
(* of backoffs and pauses.                                                 *)
PendingGoesOut ==
    state.worker_started /\ state.pending > 0 /\ client.http /\ client.key
        ~> \/ pc["worker"] \in {"posted", "dead"}
           \/ state.disabled \/ state.closed

(* close() returns, even when it blocks the thread of a worker that holds  *)
(* flush_lock and its own thread waits for that lock (recv_timeout), and   *)
(* the worker stops, wherever it was.                                      *)
CloseEnds ==
    closer.pc = "closing" ~>
        closer.pc = "returned" /\ pc["worker"] \in {"none", "gone", "dead"}
=============================================================================
