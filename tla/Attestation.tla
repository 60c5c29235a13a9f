----------------------------- MODULE Attestation ----------------------------
(***************************************************************************)
(* Verification of a Confidential Space token (attestation.rs): the policy *)
(* a trust release makes, the signature and claims of a token, and the     *)
(* three entry points, as operators over one token and one set of options. *)
(*                                                                         *)
(* Every refusal is the same error, Error::Attestation, so a verification  *)
(* is the conjunction of its checks.  A hex text is its value, its number  *)
(* of digits (None if it is not hex) and whether it is written in upper    *)
(* case.  An optional value is a set of at most one.  A token's faults are *)
(* the checks of a single value that it fails, each named for its claim.   *)
(***************************************************************************)
EXTENDS Integers, FiniteSets

CONSTANT Leeway     \* the clock leeway of the JWT library, 60 seconds

ASSUME AttestationAssumption == Leeway \in Nat

None == -1

Empty == ""

Text(name, digits) == [name |-> name, digits |-> digits, upper |-> FALSE]

(* to_ascii_lowercase.                                                     *)
Lower(text) == [text EXCEPT !.upper = FALSE]

IsFreshNonceHex(text) == text.digits \in 32 .. 128 /\ text.digits % 2 = 0

IsSha256Hex(text) == text.digits = 64

ExporterDigits == 64

ShapeFaults == {"utf8", "segments", "header", "alg", "kid"}

ClaimFaults == {"swname", "secboot", "hwmodel", "digest_type", "reference_type",
                "exp_type", "iss_type"}

-----------------------------------------------------------------------------
(* A list that is not empty replaces the single value.                     *)
Accepted(single, list) == IF list = {} THEN single ELSE list

HasPin(single, list) == \E value \in Accepted(single, list) : value # Empty

PinsImageIdentity(p) ==
    \/ HasPin(p.image_digest, p.image_digests)
    \/ HasPin(p.image_reference, p.image_references)

NonEmpty(value) == IF value = Empty THEN {} ELSE {value}

DefaultPolicy ==
    [audience |-> "quill-cloud", cert |-> {}, image_digest |-> {},
     image_digests |-> {}, image_reference |-> {}, image_references |-> {},
     allow_debug |-> FALSE]

ForgetsTransition(release, cert) ==
    {[DefaultPolicy EXCEPT !.cert = cert, !.image_digest = {release.image_digest}]}

(* policy_from_trust_release.  None is made of a release that pins nothing *)
(* (an error page, a truncated body).                                      *)
PolicyFromTrustRelease(release, cert) ==
    LET policy ==
            [audience |-> IF release.audience = Empty
                          THEN "quill-cloud" ELSE release.audience,
             cert |-> cert,
             image_digest |-> NonEmpty(release.image_digest),
             image_digests |-> Accepted(NonEmpty(release.image_digest),
                                        release.accepted_image_digests),
             image_reference |-> NonEmpty(release.image_reference),
             image_references |-> Accepted(NonEmpty(release.image_reference),
                                           release.accepted_image_references),
             allow_debug |-> FALSE]
    IN  IF PinsImageIdentity(policy) THEN {policy} ELSE {}

-----------------------------------------------------------------------------
(* verified_jwt_claims up to the key set: three segments, RS256, a kid.    *)
WellFormed(d) == d.faults \cap ShapeFaults = {}

(* decode of the jsonwebtoken crate, with the issuer and the audience of   *)
(* the policy and a required exp, iss and aud.                             *)
Decoded(d, key, policy, now) ==
    /\ key = d.signer
    /\ "iss" \notin d.faults /\ "exp" \notin d.faults
    /\ policy.audience \in d.audiences
    /\ d.exp >= now - Leeway

(* The rest of it: jwks is a function from a kid to the first key with it. *)
VerifiedJwtClaims(d, jwks, policy, now) ==
    /\ d.kid \in DOMAIN jwks
    /\ jwks[d.kid].faults = {}
    /\ Decoded(d, jwks[d.kid].key, policy, now)

-----------------------------------------------------------------------------
RequireOneOf(actual, expected) ==
    expected # {} => \E value \in expected : value # Empty /\ actual = value

ImagePinned(d, policy) ==
    /\ PinsImageIdentity(policy)
    /\ RequireOneOf(d.image_digest, Accepted(policy.image_digest, policy.image_digests))
    /\ RequireOneOf(d.image_reference,
                    Accepted(policy.image_reference, policy.image_references))

(* The claims every mode checks.  A list of nonces that is not a list of   *)
(* strings is refused.                                                     *)
EatNonce(d) == IF d.eat_nonce.given THEN d.eat_nonce ELSE d.nonces

CommonClaims(d, policy) ==
    /\ policy.allow_debug \/ "dbgstat" \notin d.faults
    /\ d.faults \cap ClaimFaults = {}
    /\ ImagePinned(d, policy)
    /\ EatNonce(d).sound

Nonces(d) == EatNonce(d).items

(* Document mode: eat_nonce itself, in either case; never the fallback.    *)
InDocument(d, nonce) ==
    /\ d.eat_nonce.given
    /\ Lower(nonce) \in {Lower(text) : text \in d.eat_nonce.items}

ExporterStandsForNonce(d, o) ==
    o.exporter # {} \/ \A nonce \in o.nonce : nonce \in Nonces(d)

LiveNonce(d, o) == \A nonce \in o.nonce : nonce \in Nonces(d)

DocumentNonce(d, o) == \A nonce \in o.nonce : InDocument(d, nonce)

AnyExporter(d, o) ==
    \A exporter \in o.exporter :
        exporter.digits = ExporterDigits /\ o.nonce # {}

(* The exporter of the caller's session, a second value beside the nonce.  *)
ExporterBound(d, o) ==
    \A exporter \in o.exporter :
        /\ exporter.digits = ExporterDigits
        /\ \E nonce \in o.nonce : Lower(nonce) # exporter
        /\ exporter \in {Lower(text) : text \in Nonces(d)}

(* The labelled claim; one that is not a string hides the other.           *)
Labelled(d) == IF d.tls_cert.given THEN d.tls_cert ELSE d.workload_tls_cert

(* The certificate a token commits to: the labelled claim, or the caller's *)
(* own certificate if its hash is among the nonces.                        *)
CertSha256(d, o) ==
    IF Labelled(d).text # {} THEN {Lower(text) : text \in Labelled(d).text}
    ELSE {cert \in o.certificate : cert \in {Lower(text) : text \in Nonces(d)}}

(* A pin of no digits, the empty text, pins nothing.                       *)
RequireEqual(actual, pin) ==
    \A expected \in pin : expected.digits # 0 => actual = expected

CertBound(d, o) ==
    \E cert \in CertSha256(d, o) :
        /\ IsSha256Hex(cert)
        /\ \A actual \in o.certificate : actual = cert
        /\ RequireEqual(cert, o.policy.cert)

Binding(o) ==
    IF o.exporter # {} THEN "tls-exporter"
    ELSE IF o.certificate # {} THEN "tls-cert"
    ELSE "none"

(* verify_claims in its two modes.                                         *)
LiveClaims(d, o) ==
    /\ CommonClaims(d, o.policy)
    /\ LiveNonce(d, o)
    /\ ExporterBound(d, o)
    /\ CertBound(d, o)

DocumentClaims(d, o) == CommonClaims(d, o.policy) /\ DocumentNonce(d, o)

-----------------------------------------------------------------------------
(* What an entry point refuses before any network or cryptographic work.   *)
Refused(entry, o) ==
    CASE entry = "live" -> FALSE
      [] entry = "document" -> ~ \E nonce \in o.nonce : IsFreshNonceHex(nonce)
      [] entry = "receipt_key" -> o.nonce = {}

(* The whole of verify_gateway_attestation, the document verification and  *)
(* verify_receipt_key_attestation, once the key set is there.              *)
Verified(entry, d, o, jwks, now) ==
    /\ ~ Refused(entry, o)
    /\ WellFormed(d)
    /\ VerifiedJwtClaims(d, jwks, o.policy, now)
    /\ IF entry = "live" THEN LiveClaims(d, o) ELSE DocumentClaims(d, o)

(* binding of the result; only live verification can raise it.             *)
ReportedBinding(entry, o) == IF entry = "live" THEN Binding(o) ELSE "none"

LabelledTexts(d) == d.tls_cert.text \cup d.workload_tls_cert.text

OnlyLabelled(d, nonce) ==
    {Lower(text) : text \in {t \in LabelledTexts(d) : IsSha256Hex(t)}} \ {Lower(nonce)}

(* cert_sha256_candidates: what is shaped like a hash, but for the nonce.  *)
CertSha256Candidates(d, nonce) ==
    {Lower(text) : text \in
        {t \in LabelledTexts(d) \cup (IF d.eat_nonce.given THEN d.eat_nonce.items ELSE {}) :
            IsSha256Hex(t)}} \ {Lower(nonce)}
=============================================================================
