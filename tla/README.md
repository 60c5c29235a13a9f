# Verification of the TrustedRouter Rust SDK

TLA+ models of the SDK under `src/crates/`, the TLC configurations that check
them on small instances, and TLAPS proofs of what matters most. Paths below are
relative to `src/crates/trusted-router/src/`; `ffi` is
`src/crates/trusted-router-ffi/src/lib.rs`.

## The system

| part | code | what it does |
|---|---|---|
| policy kernel (L1) | `transport/policy.rs` | from a failure or a status to *retry / fail over / delay* |
| plane routing (L2) | `transport/routing.rs` | base URLs, the ordered candidate URLs of a call |
| engine (L3) | `transport/engine.rs`, `transport/mod.rs` | the retry loop: send, drain, back off, move on |
| headers (L4) | `transport/headers.rs` | one attempt's headers, credentials, the idempotency key |
| client | `client.rs` | builder and endpoint methods |
| flight recorder | `telemetry.rs` | one record per attempt, the `x-tr-client` header, the report of a call |
| counter rows | `telemetry/wire.rs`, `telemetry/reporter.rs` | per-minute counters and the ladder that folds them |
| reporter | `telemetry/reporter.rs` | buffers, batches, flushes, gates, policy, worker, `close()` |
| SSE | `sse.rs` | wire layer and protocol validators of a stream |
| receipts | `receipts.rs` | capture and verification of signed receipts |
| attestation | `attestation.rs` | verification of Confidential Space tokens |
| OAuth | `oauth.rs` | PKCE and the loopback listener |
| facades | `blocking.rs`, `ffi` | blocking client, C ABI |
| data | `types.rs`, `tools.rs`, `error.rs`, `constants.rs` | types, schemas, errors |

An endpoint method decides plane, path and key, L2 makes the candidates once,
and L4 and L1 run on every attempt of the L3 loop. Each attempt tells the
recorder what happened; a finished recorder hands one event and its counter
rows to the reporter. A streaming call leaves the loop with an open response,
and the wire layer and a validator share the recorder from there. Attestation,
receipts, OAuth and the C ABI are used beside or on top of such calls.

## Modules

| module | models | state and actions |
|---|---|---|
| `Policy` | `policy.rs` | operators: the dispositions `FromHttp` and `FromTransport`, `ParseRetryAfter`, `RetryDelay` |
| `Recorder` | `RequestRecorder` in `telemetry.rs` | a recorder is a record, each hook an operator; `Reports` is what `finish` hands to the sink |
| `LogicalCall` | the promise of one call | abstract: `Send`, `Move`, `End` |
| `Engine` | `execute`, `send_once`, `send_raw`, `read_body`, `request_bytes` | `phase` is the await the future is suspended in; one action per resumption |
| `Stream` | `open_stream`, `sse.rs`, `StreamRecorder` | extends `Engine` with the body, the validator, and the consumer's drop |
| `Routes` | `routing.rs`, route and host tables of `telemetry.rs` and `sse.rs` | operators on paths as sequences of segments |
| `RawCalls` | `validated_raw_sse` and the routes of a raw call | `Spell`ing steps, candidates, redirects |
| `Requests` | `client.rs`, `headers.rs`, `transport/mod.rs` | build a client, begin a call of every kind, attempts, answers with cookies |
| `CounterFold` | `counter_target`, `refold`, `merge_counter` | operators on the rows of a window |
| `CounterWindow` | one open window | any sequence of increments, with the increments as history |
| `Reporter` | `State`, `on_request`, `flush_with`, `handle_response`, `close` | each critical section of the state mutex is a step |
| `Gates` | `gate`, `set_backoff`, `apply_policy` | operators shared by `Reporter` and `Worker` |
| `Worker` | `worker`, `start_worker`, `close` | when a flush happens: every await of the loop is a `pc`; records are only counted |
| `Receipts` | `verify_receipt_with`, `stream_digest` | the ordered list of checks; the digest as a fold over events |
| `ReceiptCapture` | `ReceiptCapture`, `verify_receipt` | `Chunk`, `Verify` and `VerifyReceipt`; `verdict` is the answer of the last one |
| `Attestation` | policy, signature, claims, entry points of `attestation.rs` | operators; a verification is the conjunction of its checks |
| `AttestedChannel` | a caller of `attestation.rs` in a changing world | connections, nonces, tokens, releases, keys and time |
| `Loopback` | `oauth.rs` | several sign-ins with their listeners, browsers and code exchanges |
| `Handles` | `ffi` over `blocking.rs` | threads in nested calls and callbacks, clients, results, a heap of addresses |
| `CallProofs`, `SendProofs`, `ReportProofs` | - | theorems about `Engine` and `Stream`: the walk and the refinement; headers and backoff; the recorder's report |
| `ProcessProofs` | - | theorems about `Worker`, `Loopback` and `Handles`, whose specifications carry the module's name (`WorkerSpec`, `HandlesSpec`) so that one module can extend the three |
| `RequestProofs`, `ReporterProofs`, `AttestationProofs`, `ReceiptProofs` | - | theorems about the module they are named for (`AttestationProofs`: also `AttestedChannel`; `ReceiptProofs`: `ReceiptCapture` over `Receipts`) |
| `MC*` | - | constants for TLC |

**Engine.** `wire` is a history of what went out (host, key, header) and what
came back. The recorder never reads it, so properties that compare the two
compare the SDK's account with the facts. `Conclude` is the tail of the loop
body: the stop test, the cursor, `on_moved`, the delay. `CallerDrops` is the
drop of the future at any await; `EndWith` runs the recorder's `finish` or
`Drop`. A call outside telemetry's scope has a recorder that is off.

**Stream.** `stage` follows the generator. The Responses validators yield the
terminal event before they complete the record (`terminal`), the chat ones
complete first (`ended`). `seen` is what the consumer met last: nothing, the
terminal event, `[DONE]`, the end of the body or a failure.

**Routes, RawCalls.** A path is a sequence of segments, each in the form it is
written in (as it is, escaped, in capitals, with an escaped separator or a
backslash, or as a URL scheme). The caller means one route and may respell its
path step by step, or write a whole URL after the `/`; what the SDK makes of
the spelling is compared with the route that was meant.

**Requests.** A header layer is a set of names and values; names are in lower
case, since every comparison in the code ignores case. An injected HTTP client adds its defaults and the cookies of its jar behind the
SDK's back. The engine's decisions are those of `Engine`: here a call is sent
again whenever it may be replayed.

**Reporter.** Callers and flushes read the clock in one step and use it in a
later one, because the code reads it before it takes the mutex. The control
plane answers anything, or takes a batch in and loses the answer. The runtime
the worker runs on may stop at any point. `ledger` and `server` are histories.
An event and a row weigh one byte unit each; sampling is a free choice wherever
the rate lies strictly between 0 and 100.

**Worker.** Every time is the number of ticks until it is reached, so the
clock never ends and liveness can be checked on a finite graph. `permit` is
the one permit of `Notify`. `client` says whether an HTTP client can be built,
whether there is a key, and whether the last handle is dropped on the only
thread of the worker's runtime, where the worker stands still until `close()`
returns. `quiet` is the time since the worker's last attempt.

**Receipts.** A hash is the sequence of lines it was taken of, a document knows
the key it attests to, and a receipt has a set of `faults`, the parsing
functions (or the parts of one with errors of different classes) that reject
it. `VerifyReceiptWith` gives the class of the first
check that fails. An event of a capture is data, an embedded receipt, `[DONE]`
or rejected; `tail` is an undelimited rest.

**AttestedChannel.** Something that terminates TLS may sit between caller and
workload and ask the workload over a connection of its own. The fields `by`,
`over` and `drawn` of a token are history that no verification reads. The
policy comes from a release fetched earlier; the key set is given or fetched in
the middle of a verification.

**Loopback.** Verifiers, challenges and states are named for their sign-in.
An approval redirects the browser to whatever listens on the port by then,
late, twice or never. A wait may be dropped, and its port bound again. `heard`
is what an accepted peer let the listener hear of it: its request, the first
part of one, that it closed, or nothing, for ever.

**Handles.** C code keeps the contract of `trusted_router.h`. Freed addresses
are allocated again, so a double free or a stale pointer would show as a second
owner. Entering a runtime from within a callback panics (Tokio), and a panic
unwinds to `guarded`.

## Runs

| run | shows | instance |
|---|---|---|
| `calls` | resends, moves, pins, header, report, outcomes, backoff, deadlines; implements `LogicalCall` | 14 kinds of call, 10 answers, 2 failures, 2 jitter draws, 2 retries, 2 hosts, 3 validators, 2 frames; 800,900 states |
| `counter_window` | unique keys under the cap, counts exact | 3 keys, 7 increments, 6 steps |
| `reporter` | bounds, conservation, delivery, gates, eviction order | 2 callers, 3 requests, 3 instants, caps of 2 and 3 |
| `worker` | no lost wake-up, distance between flushes, delivery, `close()` ends | interval 2, backoff 1 to 3, pause 3, batches of 2, 3 records waiting |
| `receipts` | shape of a signed stream, discovery, what acceptance means, options and opt-outs | 6 events in streams of up to 4, chunks of up to 2; receipts with at most one flaw under every combination of options; 30,499 states |
| `attested_channel` | binding, freshness, candidates, no false refusal | 3 workloads, 3 releases of a rollout, 2 signing keys, 2 connections, 2 nonces, 1 token, 2 instants; 1.54 million states |
| `loopback` | sign-ins never cross, a sign-in takes its own callback | 3 sign-ins, 2 ports, 2 redirects, 1 stray connection; 100,451 states |
| `handles` | one owner, calls return | 2 threads, 5 addresses, 4 calls; 46,515 states |
| `raw_calls` | one resource per call, one route per spelling | 4 clients, 7 routes, 3 respellings, 1 redirect out of 3; 361,942 states |
| `requests` | credential-free calls, keys, reserved header | 5 configurations, 5 call options, 2 calls of 2 attempts; 388,931 states |
| `stream_protocol`, `reporter_order` | the divergences below | as `calls` and `reporter` |

Why the bounds are enough. With two retries a call has a first, a middle and a
last attempt, and with two hosts it can move and then run out of candidates.
The answers have one representative for each way the policy distinguishes
them (success, redirect, client error, 429, 500, failover status; verdict
absent, `true`, `false`; each form of `Retry-After`, one past the ceiling).
Two frames give a first event and a later one before the end. Three keys with
seven increments reach every rung of the ladder, both refolds and the last
resort. The reporter's caps are small so that eviction, pruning and trimming
happen with records in flight; a window of two ticks closes within the clock's
range. The worker's backoff doubles before its ceiling, a policy can lengthen
the interval, and the pause outlasts both. Four events hold two data events,
the receipt and `[DONE]`, in every order and with every replacement; the
receipts fail one check each, at every place of the list. One token besides the
two connections and nonces is enough for a relay (a token of one session shown
in the other), for a stale one (an earlier nonce) and for an expired one; a
second token would only matter to a verification that looks at two. Three
sign-ins are one that checks the state, one that does not and one without a
challenge, two of them on one port; two redirects are a callback and its reload,
or those of two sign-ins. Five addresses hold a client, a result per
thread and an event string, with one to spare for reuse. Three respellings
combine an escape, a detour and a capital in one path. Two calls of two
attempts show a key shared within a call or across calls.

`CHECK_DEADLOCK FALSE` is set where the system stops by design: the clock and
requests of `reporter` run out, a caller of `attested_channel`, `loopback`,
`handles`, `raw_calls` and `requests` may simply be done. Callers are symmetric
in `reporter`, which has no liveness; elsewhere no symmetry is used.

Fairness. The executor polls a future that is ready, and tokio's timers fire:
`Engine` assumes weak fairness of the local steps and of the deadline, nothing
of the servers. `Stream` adds that the consumer keeps polling. A drop is never
fair. `Worker` assumes that time passes, that ready tasks and threads run while
their runtime lives, and that every POST ends (by its timeout at the latest);
nobody has to record, to close or to keep a runtime alive. `Loopback` assumes
that a listener with a connection to accept or bytes to read is polled, and
nothing of browsers or other peers: since the code has no timeout there, a wait
need not end, and `OwnCallbackIsTaken` is about a request that is there.
`Handles` assumes that callbacks return and that a call
whose network ends is not interrupted by callbacks for ever (strong fairness
of `Returns`: streams end). The other modules have no liveness.

### Divergences between comments and code

- `stream_protocol`: the validators return a rejected event's error without
  completing the record (`sse.rs:283`), so it becomes `aborted`;
  `telemetry.rs:1342` says the opening response's outcome is kept.
- `reporter_order`: a stale clock reading closes a window behind a younger one
  (`telemetry/reporter.rs:1095`); `telemetry/reporter.rs:1046` says oldest
  first.

Met while modelling and written into the properties as what the code does, each
with the comment it departs from:

- a Responses consumer that stops at the terminal event is recorded `aborted`
  (`sse.rs:335`), where `sse.rs:193-195` has validators complete the record on
  a terminal frame;
- the last resort of the fold ladder adds to the first row, whatever its level,
  outcome or host (`telemetry/reporter.rs:443`), where `constants.rs:53-54`
  speaks of a coarser key; the total stays exact;
- a path that climbs out of its base with dot segments is counted as
  `inference_other` (`telemetry.rs:626`, against `telemetry.rs:624-625`), and a
  redirect decides how its stream is validated (`sse.rs:148`, against
  `sse.rs:136-137`);
- a key given as a raw `idempotency-key` header is replaced by a minted one
  (`transport/headers.rs:93` looks at the option only; `:82` says "when the
  caller supplied none");
- the wait for a callback ends with the first connection, whatever it is
  (`oauth.rs:325`, against `:319`), and the callback path is compared as it was
  written, not as `callback_url()` normalised it (`oauth.rs:363`, `:314`);
  `OwnCallbackIsTaken` claims neither;
- a path that reads as a URL once its first `/` is taken off is accepted as
  root-relative (`transport/routing.rs:26`, `:44`) and joined as that URL
  (`:34`, `:53`), where `tests/client_contract.rs:113` has absolute request
  paths rejected; `CandidatesNameOneResource` is about the other paths;
- a successful C call reports status 200 also for a 201 (`ffi:279`, against
  `ffi:19`).

Without a comment to compare with: a 3xx that ends a call is recorded `ok`
although the caller gets an error; a drop during backoff relabels the attempt
that had already failed; a body that ends without its terminal frame is
recorded `ok`; a 413 counts the whole batch as dropped, also what was evicted
while it was in flight; a lost answer leads to a second delivery under another
batch id; the flush of `close()` is skipped while a gate is shut; a compact
receipt never vouches for a stream, since a stream must embed the flattened
receipt it is verified with; an age that does not fit an `i64` is not compared
with `max_age_seconds` (`receipts.rs:353`).

## Proofs

All proofs are for every value of the constants; the assumptions only type
them, except where noted. Each inductive invariant is one definition with one
lemma per action or per hook.

**`CallProofs`** (`EngineAssumption`): any calls, answers and failures, any
`MaxRetries` and `AliasCount`; first the engine, then whole calls, streams
included.

- `TypeCorrect`. The inductive invariant `TypeInv` adds the type of the whole
  recorder and that a recorder in flight indexes an existing record or the next
  one: without it the hooks would not keep `attempts` a sequence of records.
- `ResendsSafe`, `MovesOnGatewayFailure`, `PinnedStay` follow from `WalkInv`:
  the attempts on the wire are *linked* (each pair is a legal resend and a legal
  move), the last one is on the cursor's host or, between two attempts, the next
  send will be linked to it, and the number of sends is the attempt counter or
  one more. None of the three is inductive alone: the decision is taken in
  `Conclude`, and the request goes out two steps later.
- `CallsImplementLogicalCall`: `StreamSpec` implements `LogicalCall` under the
  mapping `StreamAbstract` (sends are the length of `wire`, the host is the
  cursor, reports are the length of `sink`, the call is over once the engine is
  done or the recorder finished). `CallInv` adds to the engine's two invariants
  that nothing is in the sink before the call ended and at most one event after
  it (`ReportInv`), and that a stream is in its consumer's hands only after the
  hand-over (`StageInv`). Each step is then shown to be a send, a move, an end
  or a stutter.
- `StreamsKeepTheWalk`: the engine's three properties for streaming calls.

**`SendProofs`** (`EngineAssumption`): `HeadersTellTheTruth` for the engine,
`StreamsKeepHeadersTrue` for whole calls. The header is written from the
recorder and the property reads the wire, so `HeaderInv` says that the one
mirrors the other (`RecordInv`): between attempts there are as many records as
sends, the last record describes the last answer, and the failover flag is up
exactly when a send changed hosts or the next one will; within an attempt the
recorder points at the send in flight. Neither half is inductive alone: the
flag is set with the cursor, a sleep before the send that shows the move.
`BackoffsHonourTheServer` is inductive with the types: the delay is computed in
the step that goes to sleep, from the response that step has read (a wait in
milliseconds, else in seconds, else until a date), and nothing touches either
until the sleep is over.

**`ReportProofs`** (`EngineAssumption`): `TheReportMatchesTheWire`,
`TheOutcomeMatchesTheResult` and `TheOutcomeNamesItsMoment`, of whole calls.
The second is stated with the third: `OutcomeMatchesResult` speaks of calls that
ended in the engine and leaves those that became streams to
`OutcomeNamesItsMoment`. All three speak of the one event in the sink, and the sink is written once, at
the end, from the recorder; so `ReportedInv` is about the recorder all along.
`AccountInv` has the records mirror the answered sends one by one, host, status
and move. `ScopeInv` says which calls have a recorder that is on. `SinkInv` says
that the event in the sink is the recorder's own, finished at the retry ceiling
if it says so. `OutcomeInv` says what the last record may be in each phase.
`MomentInv` adds the stream's: until it ends the record is open, the time to
first token is there exactly when a frame was, the three ends leave the three
kinds of last record, and a stream released before any of them was recorded
`aborted` (`Quit`). Each hook has a lemma that says which record it
rewrites and what it leaves alone.

**`RequestProofs`** (`OptionsAssumption`, `RequestsAssumption`,
`UuidAssumption`): any configurations, endpoints, options, injected HTTP
clients and numbers of attempts. `UuidAssumption` is the one with content: a
minted UUID meets neither another nor a value the caller wrote.

- `CredentialFreeCallsStayFree`, `KeysNameOneCall`. `WireInv` says of every
  call what its transport and its stored options hold, before the first attempt
  and after any: a credential-free call's transport has lost its credentials
  (`Stripped`), the headers of the last attempt carry the same key as the first
  (`Steady`), and a key is the caller's or one minted for this call, numbered
  below the counter (`Keyed`, `KeysApart`). The wire alone would not be
  inductive: each attempt assembles its headers anew from the stored options.

**`ReporterProofs`** (`GatesAssumption`, `ReporterAssumption`): `GatesHold`. The
gate is checked in one critical section and the batch posted after two more;
`RInv` says why that is safe: whoever is inside a flush holds `flush_lock`, and
nobody without it moves a gate or switches the reporter off (a worker without
an HTTP client does, but then no flush ever begins). It also says that a
reporter that is off is empty.

**`ProcessProofs`**, three independent parts.

`Worker` (`GatesAssumption`, `WorkerAssumption`; the latter asks that
the first interval is positive and within the backoff ceiling, as the code's
constants are): any intervals, backoffs, pauses, answers and clock lag.

- `NoWakeUpIsLost`, `FlushesStayApart`. `WInv` says who is alive, that the
  regular flush is never later than the urgent one unless nothing holds the
  urgent one back and both are an interval from the last attempt (`Spaced`), and
  that a sleeper sleeps no longer than until an urgent flush could be due,
  unless it has a permit (`Rested`). The second theorem needs in addition that
  only the worker's own decision starts a flush.

`Loopback` (`LoopbackAssumption`): `SignInsApart`. `LInv` follows a
code from its approval to its exchange: connections carry what the server
redirected with, codes are bound to the challenge they were approved under,
captured codes are the sign-in's own where a state is checked, and so are keys.

`Handles` (`HandlesAssumption`): `OneOwner`. `HInv` adds the types and
that a thread holds an event string exactly while it is in a callback.

**`AttestationProofs`** (`AttestationAssumption`, `ChannelAssumption`: images
have names that are not blank, the thing in between is no workload).

- `EntryPointsAgree`, `BlankPinsMatchNothing`: about the operators, for any
  token, options and key set.
- `BindingEarned`, `PublishedAndFresh`, `CandidatesAreTheWorkloads`,
  `GatewayNotRefused`. `CInv`
  says what every minted token is (`Minted`), what the caller remembers of its
  connection, challenge and policy, and that an answer given is sound; the last
  is what the properties say, the first two are what the verification's checks
  are applied to. For the last theorem it
  also says the converse: an answer that refuses names a check that fails, so
  that a token which passes them all cannot have been refused.

**`ReceiptProofs`** (`CaptureAssumption`, `EventsAssumption`,
`OptionsAssumption`: every embedded receipt has an identity, options have the
fields of the struct): any events, chunks, receipts and options.

- `DigestsMatchTheShape`: `StandsAt` says where the accumulator stands after
  any prefix that it has not rejected: all data so far, or data and then the
  receipt, or closed; `DataKeepsOpen` is the other direction. The induction over
  the stream is an induction over its prefixes: the set of lengths for which the
  claim holds contains 0 and is closed under successor, and a set of numbers is
  a value the provers can instantiate where a predicate is not
  (`NumberInduction`, from the well-foundedness of the numbers). The same way
  shows that the recursive functions of the model exist (`DigestLoop`).
- `CapturesFindTheReceipt`: `CaptureInv` says that the receipt held is the last
  one among the captured events. That the bytes verify says in turn that the
  last receipt is the one verified.
- `AcceptedWasSigned`, `OptionsRestrict`, `OptOutsForgive`. `CaptureInv` says
  that a verdict is `verify_receipt_with`'s answer for the receipt and options
  it records; the rest is about the list of checks. A list accepts exactly if
  each check holds (`ChecksTogether`), and its answer is the class of the first
  that fails (`FirstFailedIsFirst`); relaxed options turn no check from true to
  false, and the two opt-outs change only the first check and the attestation.

Only model-checked: every liveness property and anything with `ENABLED`, which
the prover does not handle; `KeysUniqueAndBounded` and `CountsStayExact` of
`CounterWindow`, whose fold ladder sums over sequences by nested searches;
`Reporter` apart from its gates (`BuffersBounded`, `NothingVanishes`,
`ResentOnlyAfterLostAnswer`, `FailuresOutliveSuccesses`), which counts the same
sequences; `CandidatesNameOneResource` and `SpellingsAreOneRoute` of `RawCalls`
and `TelemetryHeaderIsTheSdks`, which rest on what the recursive normalisation of
paths in `Routes` makes of each concrete spelling: they are facts about the
table of routes rather than about all values of a constant.

## Not modelled

- Durations, ids, models, message texts and JSON layout. Which bytes make an
  event, a JSON value, a base64 string, a JWT or a signature valid is the code's
  business: the models take the answer as input.
- Query strings, and a URL scheme without a host in a path; resource IDs made of
  dots (`client.rs:735`), which `RawCalls` meets as dot segments.
- The failing arm of `builder.build()` (`transport/engine.rs:331`): URL, headers
  and body are parsed before it, so it has nothing left to refuse.
- Heartbeats without end: the frames of a stream are bounded, and a server that
  sends one within every idle timeout keeps its stream open.
- Counts near `MAX_COUNT` (`telemetry/reporter.rs:402`): the model clamps a
  refolded row as the code does, but no instance counts that far.
- `on_request`'s branch for an event that fails its own wire validation: what
  `finish` hands over always passes.
- The guards of deserialised OAuth exchange requests, request bodies and decoded
  answers of the endpoint methods, and `telemetry/wire.rs` apart from merging
  and clamping: grammars and formatting without state.
- `types.rs`, `tools.rs`, `constants.rs`: data and builders of schemas. The
  constants in use are constants or definitions of the modules.
- `error.rs` beyond the classification the C ABI reports.

## Plan

1. Proofs: the reporter's bounds and what becomes of its records.
2. `Requests` and `Engine` in one module, so that resends are decided by the
   engine's policy and carry the headers of `Requests`.
3. Wire validation of telemetry rows as a decision procedure.
