------------------------------ MODULE Receipts ------------------------------
(***************************************************************************)
(* Verification of an inference receipt (receipts.rs): verify_receipt_with *)
(* as the ordered list of its checks, and the digest of an SSE response.   *)
(*                                                                         *)
(* A hash is what it was taken of: SHA-256 is injective here, and the hash *)
(* of a response is the sequence of lines fed to it, one line for a plain  *)
(* body.  A receipt's faults are the checks inside one parsing function    *)
(* that it fails (a malformed envelope, a header of the wrong type, ...).  *)
(* An event of a stream is its kind, its name and its payload; the payload *)
(* of a receipt event is the identity of the receipt it embeds.            *)
(***************************************************************************)
EXTENDS Integers, Sequences, SequencesExt

CONSTANTS
    FutureSkew,     \* 60 seconds
    MaxInteger      \* the largest i64; the smallest is - MaxInteger - 1

ASSUME ReceiptsAssumption ==
    MaxInteger \in Nat \ {0} /\ FutureSkew \in 0 .. MaxInteger

None == -1

Absent == ""

NoDocument == [id |-> 0, key |-> Absent]

NoStream == [given |-> FALSE, events |-> << >>, partial |-> FALSE]

EventKinds == {"data", "receipt", "done", "rejected"}

Faults == {"envelope", "protected", "header", "payload", "signature", "json",
           "rv", "iss", "iat", "names", "pin", "nonce", "upstream", "policy",
           "cert", "req", "resp"}

Acceptable == {"canonical", "upper_case", "slash", "default_port"}

(* canonical_https_origin: an origin in one of its accepted spellings, or  *)
(* nothing.                                                                *)
CanonicalOrigin(value) ==
    IF value.spelling \in Acceptable THEN value.origin ELSE Absent

-----------------------------------------------------------------------------
(* stream_digest: one complete event.  Every failure is the same error, so *)
(* an accumulator that failed stays failed.                                *)
TakeEvent(acc, event, domain, expected) ==
    CASE event.kind = "done" -> [acc EXCEPT !.saw_done = TRUE]
      [] event.kind = "receipt" ->
           [acc EXCEPT !.ok = ~ acc.saw_receipt /\ event.payload = expected,
                       !.saw_receipt = TRUE]
      [] event.kind = "data" ->
           [acc EXCEPT
              !.ok = ~ acc.saw_receipt /\ (domain = "sse-data-v1" => event.name = Absent),
              !.lines = @ \o IF domain = "sse-events-v1"
                             THEN << event.name, event.payload >>
                             ELSE << event.payload >>,
              !.events = @ + 1]

ForgetsDone(acc, event, domain, expected) ==
    IF ~ acc.ok THEN acc
    ELSE IF event.kind = "rejected" THEN [acc EXCEPT !.ok = FALSE]
    ELSE TakeEvent(acc, event, domain, expected)

DigestEvent(acc, event, domain, expected) ==
    IF ~ acc.ok THEN acc
    ELSE IF event.kind = "rejected" \/ acc.saw_done THEN [acc EXCEPT !.ok = FALSE]
    ELSE TakeEvent(acc, event, domain, expected)

(* The accumulator after each event of the stream.                         *)
DigestTrace(events, domain, expected) ==
    LET acc[n \in 0 .. Len(events)] ==
            IF n = 0
            THEN [ok |-> TRUE, saw_done |-> FALSE, saw_receipt |-> FALSE,
                  lines |-> << >>, events |-> 0]
            ELSE DigestEvent(acc[n - 1], events[n], domain, expected)
    IN  acc

(* The digest of a whole capture: an incomplete tail, a missing receipt or *)
(* a missing [DONE] fails it.                                              *)
StreamDigest(stream, domain, expected) ==
    LET acc == DigestTrace(stream.events, domain, expected)[Len(stream.events)]
    IN  [acc EXCEPT !.ok =
            @ /\ ~ stream.partial /\ acc.saw_receipt /\ acc.saw_done]

-----------------------------------------------------------------------------
(* A check: the class of its error, and whether it holds.                  *)
Check(class, holds) == [class |-> class, holds |-> holds]

Sound(r, fault, class) == Check(class, fault \notin r.faults)

EitherBindingWillDo(o) ==
    o.require_bindings =>
        o.request # Absent \/ o.body # Absent \/ o.stream.given

(* require_traffic_bindings.                                               *)
TrafficBound(o) ==
    o.require_bindings =>
        o.request # Absent /\ (o.body # Absent \/ o.stream.given)

(* parse_envelope, parse_header (which first decodes the protected header  *)
(* and reads its JSON), verify_signature and the JSON of the claims;       *)
(* rv = 1.                                                                 *)
EnvelopeChecks(r) ==
    << Sound(r, "envelope", "structure"), Sound(r, "protected", "structure"),
       Sound(r, "header", "header"), Sound(r, "payload", "structure"),
       Sound(r, "signature", "signature"), Sound(r, "json", "structure"),
       Sound(r, "rv", "claims") >>

(* iss is a string that is not empty, an origin, and the expected one.     *)
IssuerChecks(r, o) ==
    << Sound(r, "iss", "claims"),
       Check("issuer", CanonicalOrigin(r.iss) # Absent),
       Check("issuer", CanonicalOrigin(r.iss) = CanonicalOrigin(o.issuer)) >>

SaturatingAdd(a, b) == IF a + b > MaxInteger THEN MaxInteger ELSE a + b

(* The age of a receipt as a u64; none if it is from the future, or if the *)
(* difference does not fit.                                                *)
Age(r, o) ==
    LET age == o.now - r.iat IN IF age \in 0 .. MaxInteger THEN age ELSE None

TimeChecks(r, o) ==
    << Sound(r, "iat", "time"),
       Check("time", r.iat <= SaturatingAdd(o.now, FutureSkew)),
       Check("time", o.max_age = None \/ Age(r, o) <= o.max_age) >>

(* jti, gen, route and model; att_sha256, which a compact receipt needs.   *)
ClaimChecks(r) ==
    << Sound(r, "names", "claims"), Sound(r, "pin", "claims"),
       Check("claims", r.flattened \/ r.att_sha256 # NoDocument) >>

NonceMustBeAsked(r, o) == r.nonce = o.nonce

NonceMatches(r, o) == o.nonce # Absent => r.nonce = o.nonce

NonceChecks(r, o) ==
    << Sound(r, "nonce", "nonce"), Check("nonce", NonceMatches(r, o)) >>

UpstreamChecks(r) ==
    << Sound(r, "upstream", "upstream"),
       Check("upstream", r.tier \in {"tee-verified", "tls-webpki"}),
       Check("upstream", r.tier = "tee-verified" =>
                            r.verified_at <= r.iat /\ r.iat < r.expires_at),
       Sound(r, "policy", "claims"),
       Check("upstream", r.tier = "tee-verified" => r.policy),
       Sound(r, "cert", "claims") >>

(* digest_claim on req, and the request body's hash.                       *)
RequestChecks(r, o) ==
    << Sound(r, "req", "hash"),
       Check("hash", o.request # Absent => r.req = o.request) >>

DigestClaim(r) ==
    << Sound(r, "resp", "hash"),
       Check("hash", r.of \in {"body", "sse-data-v1", "sse-events-v1"}),
       Check("hash", r.of = "body" => r.events = None) >>

Expected(r) == IF r.flattened THEN r.id ELSE Absent

(* The response, as a body or as a captured stream.                        *)
ResponseMatches(r, o) ==
    IF o.body # Absent THEN r.of = "body" /\ r.resp = << o.body >>
    ELSE o.stream.given =>
        LET digest == StreamDigest(o.stream, r.of, Expected(r))
        IN  /\ r.of # "body"
            /\ digest.ok
            /\ digest.lines = r.resp
            /\ r.events # None => r.events = digest.events

ResponseChecks(r, o) ==
    DigestClaim(r) \o
    << Check("hash", ~ (o.body # Absent /\ o.stream.given)),
       Check("hash", ResponseMatches(r, o)) >>

(* verify_gcp_attestation: the trust release and the key set are fetched   *)
(* and the document commits to the receipt's key.                          *)
VerifyGcp(document, r, o) ==
    IF o.reachable /\ document.key = r.key THEN "none" ELSE "attestation"

OptOutSkipsEvidence(r, o) ==
    IF ~ o.require_attestation THEN "none"
    ELSE IF r.flattened THEN VerifyGcp(r.att, r, o)
    ELSE VerifyGcp(o.attestation, r, o)

(* attestation_status.                                                     *)
AttestationError(r, o) ==
    IF ~ r.flattened
    THEN IF o.attestation = NoDocument
         THEN IF o.require_attestation THEN "missing_attestation" ELSE "none"
         ELSE IF o.attestation # r.att_sha256 THEN "attestation"
         ELSE VerifyGcp(o.attestation, r, o)
    ELSE IF r.att_kind = Absent THEN "missing_attestation"
    ELSE IF r.att_kind # "gcp-cs-jwt" THEN "unsupported_attestation"
    ELSE IF r.att = NoDocument THEN "missing_attestation"
    ELSE IF o.attestation # NoDocument /\ o.attestation # r.att THEN "attestation"
    ELSE VerifyGcp(r.att, r, o)

AttestationStatus(r, o) ==
    IF ~ r.flattened /\ o.attestation = NoDocument
    THEN "unverified_by_this_sdk" ELSE "verified"

(* The checks of verify_receipt_with that come before the evidence.        *)
Checks(r, o) ==
    << Check("missing_binding", TrafficBound(o)),
       Check("issuer", CanonicalOrigin(o.issuer) # Absent) >>
    \o EnvelopeChecks(r) \o IssuerChecks(r, o) \o TimeChecks(r, o)
    \o ClaimChecks(r) \o NonceChecks(r, o) \o UpstreamChecks(r)
    \o RequestChecks(r, o) \o ResponseChecks(r, o)

FirstFailed(checks) == SelectInSeq(checks, LAMBDA check : ~ check.holds)

(* verify_receipt_with: the class of the first check that fails, "none" if *)
(* the receipt is accepted.                                                *)
VerifyReceiptWith(r, o) ==
    LET failed == FirstFailed(Checks(r, o))
    IN  IF failed # 0 THEN Checks(r, o)[failed].class ELSE AttestationError(r, o)
=============================================================================
