---------------------------- MODULE ReceiptCapture --------------------------
(***************************************************************************)
(* ReceiptCapture (receipts.rs): a stream passes through it chunk by       *)
(* chunk, cut anywhere, while its consumer may ask for a verification at   *)
(* any moment; and verify_receipt, called directly.                        *)
(*                                                                         *)
(* wire is the complete events captured, tail tells whether an undelimited *)
(* rest follows them.  A source error or the end of the source changes     *)
(* nothing and is not an action.  verdict holds the answer to a            *)
(* verification until more bytes arrive; a verification leaves no state    *)
(* behind, so one at a time is enough.                                     *)
(***************************************************************************)
EXTENDS Receipts

CONSTANTS
    Known,          \* the receipts there are
    Events,         \* the events a server may send
    Options,        \* the options of a verification of a capture
    OwnOptions,     \* the options of a call of verify_receipt
    MaxEvents,      \* bound: events per stream
    MaxChunk        \* bound: events completed by one chunk

ASSUME CaptureAssumption ==
    /\ MaxEvents \in Nat /\ MaxChunk \in Nat \ {0}
    /\ \A r, s \in Known : r.id = s.id => r = s

(* Every receipt has an identity, and an event that embeds one names it.   *)
ASSUME EventsAssumption ==
    /\ \A e \in Events : e.kind \in EventKinds
    /\ \A e \in Events : e.kind = "receipt" => \E r \in Known : r.id = e.payload
    /\ \A r \in Known : r.id # Absent

(* ReceiptVerificationOptions.                                             *)
OptionFields ==
    {"issuer", "request", "body", "stream", "nonce", "max_age", "now",
     "attestation", "require_attestation", "require_bindings", "reachable"}

(* A stream of the caller's own is made of the same events.                *)
ASSUME OptionsAssumption ==
    /\ \A o \in Options \cup OwnOptions : o = [f \in OptionFields |-> o[f]]
    /\ \A o \in OwnOptions : o.stream.events \in Seq(Events)

VARIABLES wire, tail, receipt, verdict

vars == << wire, tail, receipt, verdict >>

Init ==
    /\ wire = << >>
    /\ tail = FALSE
    /\ receipt = Absent
    /\ verdict = {}

Named(id) == CHOOSE r \in Known : r.id = id

Captured == [given |-> TRUE, events |-> wire, partial |-> tail]

(* The receipt after one more complete event; one that does not decode, or *)
(* whose receipt is not an object, is passed over.                         *)
Discovered(found, event) ==
    IF event.kind = "receipt" THEN event.payload ELSE found

(* refresh_receipt scans all complete events of the wire again.            *)
Scan(start, events) ==
    LET found[n \in 0 .. Len(events)] ==
            IF n = 0 THEN start ELSE Discovered(found[n - 1], events[n])
    IN  found[Len(events)]

RefreshReceipt(events) == Scan(receipt, events)

ScansChunkAlone(added, rest) ==
    /\ Len(wire) + Len(added) <= MaxEvents
    /\ added = << >> => rest
    /\ wire' = wire \o added
    /\ tail' = rest
    /\ receipt' = RefreshReceipt(IF tail /\ added # << >> THEN Tail(added) ELSE added)
    /\ verdict' = {}

(* poll_next with a chunk that completes the events in added and leaves a  *)
(* rest or not.  A chunk that completes nothing leaves a rest.             *)
Chunk(added, rest) ==
    /\ Len(wire) + Len(added) <= MaxEvents
    /\ added = << >> => rest
    /\ wire' = wire \o added
    /\ tail' = rest
    /\ receipt' = RefreshReceipt(wire')
    /\ verdict' = {}

Answer(r, o) ==
    [receipt |-> r, options |-> o, error |-> VerifyReceiptWith(r, o),
     status |-> AttestationStatus(r, o)]

(* ReceiptCapture::verify.  Without a receipt, or with a stream of the     *)
(* caller's own, it is a structure error and nothing is verified.          *)
Verify(o) ==
    /\ verdict = {}
    /\ receipt # Absent /\ ~ o.stream.given
    /\ verdict' = {Answer(Named(receipt), [o EXCEPT !.stream = Captured])}
    /\ UNCHANGED << wire, tail, receipt >>

(* verify_receipt, on any receipt and with a stream of the caller's own.   *)
(* It reads nothing of a capture; bound: only beside an empty one.         *)
VerifyReceipt(r, o) ==
    /\ verdict = {} /\ wire = << >> /\ ~ tail
    /\ verdict' = {Answer(r, o)}
    /\ UNCHANGED << wire, tail, receipt >>

Next ==
    \/ \E added \in BoundedSeq(Events, MaxChunk), rest \in BOOLEAN :
          Chunk(added, rest)
    \/ \E o \in Options : Verify(o)
    \/ \E r \in Known, o \in OwnOptions : VerifyReceipt(r, o)

Spec == Init /\ [][Next]_vars

-----------------------------------------------------------------------------
Accepted == {v \in verdict : v.error = "none"}

Ids == {e.payload : e \in {f \in Events : f.kind = "receipt"}}

(* What a signed stream looks like: data events, unnamed in the data       *)
(* domain, then the receipt itself, then [DONE], and nothing else.         *)
Signed(stream, domain, id) ==
    LET n == Len(stream.events) - 2
    IN  /\ ~ stream.partial
        /\ n >= 0
        /\ \A i \in 1 .. n :
              /\ stream.events[i].kind = "data"
              /\ domain = "sse-data-v1" => stream.events[i].name = Absent
        /\ stream.events[n + 1].kind = "receipt" /\ stream.events[n + 1].payload = id
        /\ stream.events[n + 2].kind = "done"

Domains == {"sse-data-v1", "sse-events-v1"}

(* stream_digest's single pass with its two flags accepts exactly the      *)
(* streams that have this shape, and counts their data events.  The shape  *)
(* ends with its only [DONE], so a verification that runs while the stream *)
(* still flows cannot pass too early, nor one of a stream that goes on.    *)
DigestMatchesShape ==
    \A domain \in Domains, id \in Ids \cup {Absent} :
        LET digest == StreamDigest(Captured, domain, id)
        IN  /\ digest.ok <=> Signed(Captured, domain, id)
            /\ digest.ok => digest.events = Len(wire) - 2

(* However the stream was cut into chunks, a capture whose bytes verify    *)
(* against a receipt has discovered that receipt (refresh_receipt).        *)
CaptureFindsTheReceipt ==
    \A domain \in Domains, id \in Ids :
        StreamDigest(Captured, domain, id).ok => receipt = id

(* The lines a digest is taken of: of each of the first n events, its name *)
(* and its payload, or in the data domain its payload alone.               *)
Transcribes(lines, events, n, domain) ==
    IF domain = "sse-events-v1"
    THEN /\ Len(lines) = 2 * n
         /\ \A i \in 1 .. n : /\ lines[2 * i - 1] = events[i].name
                              /\ lines[2 * i] = events[i].payload
    ELSE /\ Len(lines) = n
         /\ \A i \in 1 .. n : lines[i] = events[i].payload

(* An accepted receipt is about the caller's own traffic: what was         *)
(* supplied is what was signed, under the default options nothing may be   *)
(* left out, a body and a stream never stand for the same response, and    *)
(* only the flattened receipt a stream embeds vouches for that stream.     *)
AcceptedIsWhatWasSigned ==
    \A v \in Accepted :
        LET r == v.receipt
            o == v.options
        IN  /\ o.request # Absent => r.req = o.request
            /\ o.body # Absent => r.of = "body" /\ r.resp = << o.body >>
            /\ o.stream.given =>
                  /\ o.body = Absent /\ r.flattened
                  /\ Signed(o.stream, r.of, r.id)
                  /\ Transcribes(r.resp, o.stream.events, Len(o.stream.events) - 2, r.of)
            /\ o.require_bindings =>
                  o.request # Absent /\ (o.body # Absent \/ o.stream.given)

(* The options with some of what the caller supplied, or asked for, left   *)
(* out, and nothing required.                                              *)
Relaxed(o) ==
    {[o EXCEPT !.require_bindings = FALSE, !.require_attestation = FALSE,
               !.request = request, !.body = body, !.nonce = nonce,
               !.max_age = max_age, !.attestation = attestation,
               !.stream = stream] :
        request \in {o.request, Absent}, body \in {o.body, Absent},
        nonce \in {o.nonce, Absent}, max_age \in {o.max_age, None},
        attestation \in {o.attestation, NoDocument},
        stream \in {o.stream, NoStream}}

(* Options only restrict: a receipt accepted with some evidence and some   *)
(* expectations is accepted with fewer of them, so no two options of       *)
(* ReceiptVerificationOptions work against each other.                     *)
OptionsOnlyRestrict ==
    \A v \in Accepted : \A o \in Relaxed(v.options) :
        VerifyReceiptWith(v.receipt, o) = "none"

(* The two opt-outs forgive the absence of evidence and nothing else: a    *)
(* receipt that only passes with them is one that was refused for evidence *)
(* the caller left out, a flattened receipt's own evidence is checked all  *)
(* the same, and nobody who did not opt out gets a receipt whose key is    *)
(* unverified (require_traffic_bindings, attestation_status).              *)
OptOutsForgiveAbsence ==
    \A v \in verdict :
        LET optedOut == [v.options EXCEPT !.require_bindings = FALSE,
                                          !.require_attestation = FALSE]
            compactAlone == ~ v.receipt.flattened /\ v.options.attestation = NoDocument
        IN  /\ v.error # "none" /\ VerifyReceiptWith(v.receipt, optedOut) = "none" =>
                 \/ v.error = "missing_binding"
                 \/ v.error = "missing_attestation" /\ compactAlone
            /\ v.error = "none" /\ v.status # "verified" =>
                 compactAlone /\ ~ v.options.require_attestation
=============================================================================
