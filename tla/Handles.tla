------------------------------ MODULE Handles -------------------------------
(***************************************************************************)
(* The C ABI (trusted-router-ffi lib.rs) over the blocking facade          *)
(* (blocking.rs): clients and results that C code owns, calls that block   *)
(* their thread in a Tokio runtime, and stream callbacks in which C code   *)
(* may call the library again.                                             *)
(*                                                                         *)
(* C code keeps the contract of trusted_router.h: it uses a client only    *)
(* while it lives, releases it when no call of any thread uses it, and     *)
(* releases a result once.  Memory is a set of addresses; what is freed    *)
(* may be allocated again.  A thread is in at most one call that reached   *)
(* the runtime: entering a runtime from within one, from a callback, is a  *)
(* panic (Tokio, external), and a panic anywhere below a call unwinds to   *)
(* guarded.                                                                *)
(***************************************************************************)
EXTENDS Integers, Sequences

CONSTANTS
    Threads,        \* the threads of the C program
    Addresses,      \* the addresses the allocator may return
    MaxCalls        \* bound: calls and clients ever made

Null == 0

ASSUME HandlesAssumption ==
    /\ Addresses \subseteq Nat \ {Null}
    /\ MaxCalls \in Nat

VARIABLES heap, clients, results, frame, calls

handlesVars == << heap, clients, results, frame, calls >>

(* tr_request_json, tr_chat_completions and tr_responses differ in what    *)
(* they send, not in what they own.                                        *)
Operations == {"tr_request_json", "tr_stream_json"}

Outside == [phase |-> "outside", op |-> "none", client |-> Null, string |-> Null]

HandlesInit ==
    /\ heap = {} /\ clients = {} /\ results = {}
    /\ frame = [t \in Threads |-> Outside]
    /\ calls = 0

(* C code runs on t: outside the library, or in a callback.                *)
Running(t) == frame[t].phase \in {"outside", "callback"}

InRuntime(t) == frame[t].phase # "outside"

InUse(c) == \E t \in Threads : frame[t].client = c

FreeAddresses == Addresses \ heap

-----------------------------------------------------------------------------
(* success_json and failure_result: one string, as data or as error.       *)
SuccessJson(string) ==
    [code |-> 0, http_status |-> 200, data |-> string, error |-> Null]

FailureResult(code, status, string) ==
    [code |-> code, http_status |-> status, data |-> Null, error |-> string]

InvalidConfiguration == 11

(* error_code: the status of an answer decides the first seven; the others *)
(* have none.                                                              *)
ErrorCode(status) ==
    CASE status = 401 -> 2 [] status = 403 -> 3 [] status = 404 -> 4
      [] status = 429 -> 5 [] status = 501 -> 6
      [] status \in 400 .. 499 \ {401, 403, 404, 429} -> 1
      [] OTHER -> 7

(* How an operation below guarded may end: an answer, an error without     *)
(* one (transport, timeout, serialization), or a panic.                    *)
Endings ==
    [kind : {"answer"}, status : {200, 201, 429, 503}]
    \cup [kind : {"transport", "timeout", "serialization", "panic"}, status : {0}]

LocalCode(kind) ==
    CASE kind = "transport" -> 8 [] kind = "timeout" -> 9
      [] kind = "serialization" -> 10 [] OTHER -> InvalidConfiguration

Guarded(ending, string) ==
    IF ending.kind # "answer" THEN FailureResult(LocalCode(ending.kind), 0, string)
    ELSE IF ending.status \in 200 .. 299 THEN SuccessJson(string)
    ELSE FailureResult(ErrorCode(ending.status), ending.status, string)

Strings(r) == {r.data, r.error} \ {Null}

-----------------------------------------------------------------------------
(* tr_client_new; null on invalid input, and nothing is kept.              *)
ClientNew(t, valid) ==
    /\ Running(t) /\ calls < MaxCalls
    /\ calls' = calls + 1
    /\ IF valid
       THEN \E a \in FreeAddresses : heap' = heap \cup {a} /\ clients' = clients \cup {a}
       ELSE UNCHANGED << heap, clients >>
    /\ UNCHANGED << results, frame >>

(* tr_client_free.  In a callback the runtime's destructor panics, after   *)
(* it told its threads to stop; the panic is contained and the memory is   *)
(* released all the same.                                                  *)
ClientFree(t, c) ==
    /\ Running(t) /\ ~ InUse(c)
    /\ clients' = clients \ {c}
    /\ heap' = heap \ {c}
    /\ UNCHANGED << results, frame, calls >>

FreesOneString(t, r) ==
    /\ Running(t)
    /\ results' = results \ {r}
    /\ heap' = heap \ {r.data}
    /\ UNCHANGED << clients, frame, calls >>

(* tr_result_free.                                                         *)
ResultFree(t, r) ==
    /\ Running(t)
    /\ results' = results \ {r}
    /\ heap' = heap \ Strings(r)
    /\ UNCHANGED << clients, frame, calls >>

(* A call that fails before it sends anything: a null client, an argument  *)
(* that is missing, not UTF-8 or not JSON, a bad method or plane, no       *)
(* callback; or a runtime entered from within a callback, which panics.    *)
FailsLocally(t, c, sound) ==
    /\ Running(t) /\ calls < MaxCalls
    /\ c = Null \/ ~ sound \/ InRuntime(t)
    /\ calls' = calls + 1
    /\ \E a \in FreeAddresses :
          /\ heap' = heap \cup {a}
          /\ results' = results \cup {FailureResult(InvalidConfiguration, 0, a)}
    /\ UNCHANGED << clients, frame >>

NestedWaits(t, op, c) ==
    /\ Running(t) /\ calls < MaxCalls
    /\ c # Null
    /\ calls' = calls + 1
    /\ frame' = [frame EXCEPT ![t] = [op |-> op, client |-> c, string |-> Null,
                    phase |-> IF InRuntime(t) THEN "waiting" ELSE "sent"]]
    /\ UNCHANGED << heap, clients, results >>

(* A call that enters the runtime and sends its request.                   *)
Call(t, op, c) ==
    /\ ~ InRuntime(t) /\ calls < MaxCalls
    /\ c # Null
    /\ calls' = calls + 1
    /\ frame' = [frame EXCEPT ![t] =
                    [op |-> op, client |-> c, string |-> Null, phase |-> "sent"]]
    /\ UNCHANGED << heap, clients, results >>

(* A call returns: a request that was answered or failed, a stream that    *)
(* ended, failed or carried an error frame, or a panic.                    *)
Returns(t, ending) ==
    /\ frame[t].phase \in {"sent", "open"}
    /\ frame[t].phase = "open" => ending.status # 201
    /\ frame[t].phase = "sent" /\ frame[t].op = "tr_stream_json" =>
          ending.status \notin 200 .. 299
    /\ \E a \in FreeAddresses :
          /\ heap' = heap \cup {a}
          /\ results' = results \cup {Guarded(ending, a)}
    /\ frame' = [frame EXCEPT ![t] = Outside]
    /\ UNCHANGED << clients, calls >>

(* The stream opens.                                                       *)
Opens(t) ==
    /\ frame[t].phase = "sent" /\ frame[t].op = "tr_stream_json"
    /\ frame' = [frame EXCEPT ![t].phase = "open"]
    /\ UNCHANGED << heap, clients, results, calls >>

(* validated_raw_sse has an event: a temporary string for the callback.    *)
Event(t) ==
    /\ frame[t].phase = "open"
    /\ \E a \in FreeAddresses :
          /\ heap' = heap \cup {a}
          /\ frame' = [frame EXCEPT ![t].phase = "callback",
                                    ![t].string = a]
    /\ UNCHANGED << clients, results, calls >>

(* The callback returns.  Zero ends the stream, cleanly.                   *)
CallbackReturns(t, continue) ==
    /\ frame[t].phase = "callback"
    /\ IF continue
       THEN /\ frame' = [frame EXCEPT ![t].phase = "open",
                                      ![t].string = Null]
            /\ heap' = heap \ {frame[t].string}
            /\ UNCHANGED results
       ELSE \E a \in FreeAddresses :
            /\ frame' = [frame EXCEPT ![t] = Outside]
            /\ heap' = (heap \ {frame[t].string}) \cup {a}
            /\ results' = results \cup {SuccessJson(a)}
    /\ UNCHANGED << clients, calls >>

HandlesNext ==
    \E t \in Threads :
       \/ \E valid \in BOOLEAN : ClientNew(t, valid)
       \/ \E c \in clients : ClientFree(t, c)
       \/ \E r \in results : ResultFree(t, r)
       \/ \E c \in clients \cup {Null}, sound \in BOOLEAN : FailsLocally(t, c, sound)
       \/ \E op \in Operations, c \in clients : Call(t, op, c)
       \/ \E ending \in Endings : Returns(t, ending)
       \/ Opens(t) \/ Event(t)
       \/ \E continue \in BOOLEAN : CallbackReturns(t, continue)

(* The network answers, breaks off or times out; streams end; callbacks    *)
(* return.                                                                 *)
HandlesFairness ==
    \A t \in Threads :
       /\ SF_handlesVars(\E ending \in Endings : Returns(t, ending))
       /\ WF_handlesVars(\E continue \in BOOLEAN : CallbackReturns(t, continue))

HandlesSpec == HandlesInit /\ [][HandlesNext]_handlesVars /\ HandlesFairness

-----------------------------------------------------------------------------
EventStrings == {frame[t].string : t \in Threads} \ {Null}

ResultStrings == UNION {Strings(r) : r \in results}

(* Every allocation has exactly one owner, and every owner's allocation is *)
(* live: the clients and results C code holds, and the temporary string of *)
(* each callback that runs.  So nothing leaks and nothing is freed twice,  *)
(* whatever failed, panicked, was cancelled or was called from a callback  *)
(* (owned_c_string, tr_result_free, tr_stream_json).                       *)
AllocationsHaveOneOwner ==
    /\ heap = clients \cup ResultStrings \cup EventStrings
    /\ clients \cap (ResultStrings \cup EventStrings) = {}
    /\ ResultStrings \cap EventStrings = {}
    /\ \A r, s \in results : Strings(r) \cap Strings(s) # {} => r = s
    /\ \A t, u \in Threads :
          frame[t].string = frame[u].string /\ frame[t].string # Null => t = u

(* Every call returns to C, provided that the network answers or breaks    *)
(* off, streams end and callbacks return; a call made from a callback on   *)
(* the same client returns at once instead of waiting for the runtime that *)
(* waits for the callback (guarded over block_on).                         *)
CallsReturn ==
    \A t \in Threads : InRuntime(t) ~> ~ InRuntime(t)
=============================================================================
