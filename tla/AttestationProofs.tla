------------------------- MODULE AttestationProofs --------------------------
(***************************************************************************)
(* Theorems about attestation: what the entry points have in common for    *)
(* any token and any options, and what an attested caller may rely on for  *)
(* any workloads, releases, lifetimes and bounds of the world around it.   *)
(***************************************************************************)
EXTENDS AttestedChannel, TLAPS

IsText(t) == t = [name |-> t.name, digits |-> t.digits, upper |-> t.upper]

AtMostOne(S) == \A x, y \in S : x = y

(* The claims the theorems about entry points read: labelled certificates  *)
(* are optional texts, the nonces are texts.                               *)
ReadableClaims(d) ==
    /\ AtMostOne(d.tls_cert.text) /\ AtMostOne(d.workload_tls_cert.text)
    /\ \A t \in LabelledTexts(d) \cup d.eat_nonce.items : IsText(t)

(* Lowering a text keeps how many digits it has.                           *)
LEMMA LowerKeepsDigits ==
    ASSUME NEW t, IsText(t)
    PROVE  Lower(t).digits = t.digits
  BY DEF Lower, IsText

(* Live verification settles on one certificate at most, and it is a       *)
(* SHA-256.                                                                *)
LEMMA OneCertificate ==
    ASSUME NEW d, NEW o, ReadableClaims(d), AtMostOne(o.certificate), CertBound(d, o)
    PROVE  \A cert \in CertSha256(d, o) : IsSha256Hex(cert)
  <1>1. AtMostOne(CertSha256(d, o))
    BY DEF CertSha256, AtMostOne, Labelled, ReadableClaims
  <1> QED BY <1>1 DEF CertBound, AtMostOne

(* A caller that can see less of its connection is not refused.  What live *)
(* verification accepts passes document verification with the same policy  *)
(* and challenge, if the challenge is fresh and the token has eat_nonce;   *)
(* the certificate live verification settled on is then a candidate of the *)
(* document, unless it is the challenge itself.  The token passes without  *)
(* the exporter, and as evidence for a receipt key.  Only the legacy       *)
(* nonces claim separates the entry points (verify_claims,                 *)
(* cert_sha256_candidates).                                                *)
THEOREM EntryPointsAgree ==
    ASSUME NEW d, NEW o, NEW jwks, NEW at,
           ReadableClaims(d), AtMostOne(o.nonce), AtMostOne(o.certificate),
           Verified("live", d, o, jwks, at),
           NEW less, less.policy = o.policy, less.nonce = o.nonce
    PROVE  /\ \A nonce \in o.nonce : d.eat_nonce.given =>
                 /\ Verified("receipt_key", d, less, jwks, at)
                 /\ IsFreshNonceHex(nonce) => Verified("document", d, less, jwks, at)
                 /\ CertSha256(d, o) \ {Lower(nonce)}
                       \subseteq CertSha256Candidates(d, nonce)
           /\ less.certificate = o.certificate /\ less.exporter = {}
                 => Verified("live", d, less, jwks, at)
  <1>1. /\ WellFormed(d) /\ VerifiedJwtClaims(d, jwks, o.policy, at)
        /\ CommonClaims(d, o.policy) /\ LiveNonce(d, o) /\ CertBound(d, o)
    BY DEF Verified, LiveClaims
  <1>2. ASSUME NEW nonce \in o.nonce, d.eat_nonce.given
        PROVE  /\ Verified("receipt_key", d, less, jwks, at)
               /\ IsFreshNonceHex(nonce) => Verified("document", d, less, jwks, at)
    <2>1. DocumentNonce(d, less)
      BY <1>1, <1>2 DEF DocumentNonce, LiveNonce, InDocument, Nonces, EatNonce
    <2>2. DocumentClaims(d, less)
      BY <1>1, <2>1 DEF DocumentClaims
    <2>3. ~ Refused("receipt_key", less)
      BY <1>2 DEF Refused
    <2>4. IsFreshNonceHex(nonce) => ~ Refused("document", less)
      BY <1>2 DEF Refused
    <2> QED BY <1>1, <2>2, <2>3, <2>4 DEF Verified
  <1>3. ASSUME NEW nonce \in o.nonce, d.eat_nonce.given,
               NEW cert \in CertSha256(d, o), cert # Lower(nonce)
        PROVE  cert \in CertSha256Candidates(d, nonce)
    <2>1. IsSha256Hex(cert)
      BY <1>1, OneCertificate
    <2>2. PICK t \in LabelledTexts(d) \cup d.eat_nonce.items : cert = Lower(t)
      BY <1>3 DEF CertSha256, Labelled, LabelledTexts, Nonces, EatNonce
    <2>3. IsText(t)
      BY DEF ReadableClaims
    <2>4. IsSha256Hex(t)
      BY <2>1, <2>2, <2>3, LowerKeepsDigits DEF IsSha256Hex
    <2> QED BY <1>3, <2>2, <2>4 DEF CertSha256Candidates
  <1>4. ASSUME less.certificate = o.certificate, less.exporter = {}
        PROVE  Verified("live", d, less, jwks, at)
    <2>1. LiveNonce(d, less)
      BY <1>1 DEF LiveNonce
    <2>2. ExporterBound(d, less)
      BY <1>4 DEF ExporterBound
    <2>3. CertBound(d, less)
      BY <1>1, <1>4 DEF CertBound, CertSha256
    <2>4. ~ Refused("live", less)
      BY DEF Refused
    <2> QED BY <1>1, <2>1, <2>2, <2>3, <2>4 DEF Verified, LiveClaims
  <1> QED BY <1>2, <1>3, <1>4

(* A policy someone wrote by hand is held to the same rule as one made of  *)
(* a release: nothing is accepted, by any entry point, unless a value that *)
(* is not blank pins the digest or the reference, and whichever of the two *)
(* is pinned matches; a blank entry, alone or in a list, never matches a   *)
(* token that has no such claim (pins_image_identity, require_one_of).     *)
THEOREM BlankPinsMatchNothing ==
    ASSUME NEW entry, NEW d, NEW o, NEW jwks, NEW at,
           Verified(entry, d, o, jwks, at),
           NEW digests, digests = Accepted(o.policy.image_digest, o.policy.image_digests),
           NEW references,
           references = Accepted(o.policy.image_reference, o.policy.image_references)
    PROVE  /\ digests \cup references # {}
           /\ digests # {} => d.image_digest \in digests \ {Empty}
           /\ references # {} => d.image_reference \in references \ {Empty}
  <1>1. ImagePinned(d, o.policy)
    BY DEF Verified, LiveClaims, DocumentClaims, CommonClaims
  <1> QED BY <1>1 DEF ImagePinned, PinsImageIdentity, HasPin, RequireOneOf

-----------------------------------------------------------------------------
(* What is known of a token once it was minted on one of the connections   *)
(* cs, with k nonces drawn so far.                                         *)
Minted(d, cs, k) ==
    /\ d.over \in DOMAIN cs /\ d.by = cs[d.over] /\ d.by \in Workloads
    /\ d.drawn \in 0 .. k /\ d.exp \in Int
    /\ d.faults = IF d.by \in Debug THEN {"dbgstat"} ELSE {}
    /\ d.signer = d.kid
    /\ d.image_digest = Image[d.by] /\ d.image_reference = Empty
    /\ d.eat_nonce.given /\ d.eat_nonce.sound
    /\ \E n \in 1 .. d.drawn :
          d.eat_nonce.items =
             {NonceText(n), ExporterText(d.over), CertText(d.by), KeyText(d.by)}
    /\ LabelledTexts(d) \subseteq {CertText(d.by)}

(* Texts of different origin never coincide, and they are in lower case.   *)
LEMMA TextsApart ==
    ASSUME NEW x, NEW y
    PROVE  /\ NonceText(x) = NonceText(y) => x = y
           /\ ExporterText(x) = ExporterText(y) => x = y
           /\ CertText(x) = CertText(y) => x = y
           /\ KeyText(x) = KeyText(y) => x = y
           /\ NonceText(x) \notin {ExporterText(y), CertText(y), KeyText(y)}
           /\ ExporterText(x) \notin {CertText(y), KeyText(y)}
           /\ CertText(x) # KeyText(y)
  <1>1. << "nonce", x >> = << "nonce", y >> => x = y
    OBVIOUS
  <1>2. << "exporter", x >> = << "exporter", y >> => x = y
    OBVIOUS
  <1>3. << "cert", x >> = << "cert", y >> => x = y
    OBVIOUS
  <1>4. << "key", x >> = << "key", y >> => x = y
    OBVIOUS
  <1>5. \A a, b : a # b => << a, x >> # << b, y >>
    OBVIOUS
  <1>6. "nonce" # "exporter" /\ "nonce" # "cert" /\ "nonce" # "key"
    OBVIOUS
  <1>7. "exporter" # "cert" /\ "exporter" # "key" /\ "cert" # "key"
    OBVIOUS
  <1>8. \A a, b : Text(a, 64) = Text(b, 64) => a = b
    BY DEF Text
  <1> HIDE DEF Text
  <1> QED BY <1>1, <1>2, <1>3, <1>4, <1>5, <1>6, <1>7, <1>8
             DEF NonceText, ExporterText, CertText, KeyText

(* The texts of nonces, exporters, certificates and keys are lower-case.   *)
LEMMA TextsLower ==
    ASSUME NEW x
    PROVE  /\ Lower(NonceText(x)) = NonceText(x)
           /\ Lower(ExporterText(x)) = ExporterText(x)
           /\ Lower(CertText(x)) = CertText(x)
           /\ Lower(KeyText(x)) = KeyText(x)
  <1>1. \A a, n, u : [[name |-> a, digits |-> n, upper |-> u] EXCEPT !.upper = u]
                         = [name |-> a, digits |-> n, upper |-> u]
    OBVIOUS
  <1>2. \A a : Lower(Text(a, 64)) = Text(a, 64)
    BY <1>1, ZenonT(30) DEF Lower, Text
  <1> QED BY <1>2 DEF NonceText, ExporterText, CertText, KeyText

(* So lowering the nonces of a token changes nothing.                      *)
LEMMA NoncesOfToken ==
    ASSUME NEW d, NEW cs, NEW k, Minted(d, cs, k)
    PROVE  /\ Nonces(d) = d.eat_nonce.items
           /\ {Lower(t) : t \in d.eat_nonce.items} = d.eat_nonce.items
           /\ {Lower(t) : t \in LabelledTexts(d)} = LabelledTexts(d)
  <1>1. Nonces(d) = d.eat_nonce.items
    BY DEF Nonces, EatNonce, Minted
  <1>2. \A t \in d.eat_nonce.items \cup LabelledTexts(d) : Lower(t) = t
    BY TextsLower DEF Minted
  <1> QED BY <1>1, <1>2

(* A policy of a release accepts an image without a reference only if the  *)
(* release publishes its digest.                                           *)
LEMMA PublishedImage ==
    ASSUME NEW d, NEW release, NEW p \in PolicyFromTrustRelease(release, {}),
           d.image_reference = Empty, CommonClaims(d, p)
    PROVE  d.image_digest \in Published(release) /\ "dbgstat" \notin d.faults
  <1> DEFINE listed == Accepted(NonEmpty(release.image_digest),
                                release.accepted_image_digests)
  <1>1. /\ p.image_digest = NonEmpty(release.image_digest)
        /\ p.image_digests = listed
        /\ p.allow_debug = FALSE
    BY DEF PolicyFromTrustRelease
  <1>2. Accepted(p.image_digest, p.image_digests) = listed
    BY <1>1 DEF Accepted
  <1>3. Accepted(p.image_reference, p.image_references) = {}
    BY DEF CommonClaims, ImagePinned, RequireOneOf
  <1>4. d.image_digest \in listed \ {Empty}
    BY <1>2, <1>3 DEF CommonClaims, ImagePinned, RequireOneOf, PinsImageIdentity, HasPin
  <1> QED BY <1>1, <1>4 DEF CommonClaims, Published

(* What the texts of a token tell.                                         *)
LEMMA ItemsTell ==
    ASSUME NEW d, NEW cs, NEW k \in Nat, Minted(d, cs, k), NEW x
    PROVE  /\ NonceText(k) \in d.eat_nonce.items => d.drawn = k
           /\ ExporterText(x) \in d.eat_nonce.items => d.over = x
           /\ CertText(x) \in d.eat_nonce.items \cup LabelledTexts(d) => d.by = x
           /\ KeyText(x) \in d.eat_nonce.items => d.by = x
  <1>1. PICK n \in 1 .. d.drawn : d.eat_nonce.items =
             {NonceText(n), ExporterText(d.over), CertText(d.by), KeyText(d.by)}
    BY DEF Minted
  <1>2. d.drawn \in 0 .. k
    BY DEF Minted
  <1>3. NonceText(k) \in d.eat_nonce.items => n = k
    BY <1>1, TextsApart
  <1>4. LabelledTexts(d) \subseteq {CertText(d.by)}
    BY DEF Minted
  <1>5. NonceText(k) \in d.eat_nonce.items => d.drawn = k
    BY <1>2, <1>3
  <1>6. ExporterText(x) \in d.eat_nonce.items => d.over = x
    BY <1>1, TextsApart
  <1>7. CertText(x) \in d.eat_nonce.items \cup LabelledTexts(d) => d.by = x
    BY <1>1, <1>4, TextsApart
  <1>8. KeyText(x) \in d.eat_nonce.items => d.by = x
    BY <1>1, TextsApart
  <1> QED BY <1>5, <1>6, <1>7, <1>8

(* The certificate that live verification settles on is the minting        *)
(* workload's.                                                             *)
LEMMA CertificateTells ==
    ASSUME NEW d, NEW cs, NEW k \in Nat, Minted(d, cs, k),
           NEW o, NEW x, o.certificate = {CertText(x)}, CertBound(d, o)
    PROVE  d.by = x
  <1>1. CertText(x) \in CertSha256(d, o)
    BY DEF CertBound
  <1>2. CertText(x) \in d.eat_nonce.items \cup LabelledTexts(d)
    BY <1>1, NoncesOfToken DEF CertSha256, Labelled, LabelledTexts
  <1> QED BY <1>2, ItemsTell

(* The candidates of a token that answers the challenge k.                 *)
LEMMA CandidatesTell ==
    ASSUME NEW d, NEW cs, NEW k \in Nat, Minted(d, cs, k), NEW x
    PROVE  /\ NonceText(k) \notin CertSha256Candidates(d, NonceText(k))
           /\ CertText(x) \in CertSha256Candidates(d, NonceText(k)) <=> x = d.by
  <1>1. Lower(NonceText(k)) = NonceText(k) /\ Lower(CertText(d.by)) = CertText(d.by)
    BY TextsLower
  <1>2. CertText(d.by) \in d.eat_nonce.items /\ d.eat_nonce.given
    BY DEF Minted
  <1>3. IsSha256Hex(CertText(d.by))
    BY DEF IsSha256Hex, CertText, Text
  <1>4. CertText(d.by) # NonceText(k)
    BY TextsApart
  <1>5. CertText(d.by) \in CertSha256Candidates(d, NonceText(k))
    BY <1>1, <1>2, <1>3, <1>4 DEF CertSha256Candidates
  <1>6. CertSha256Candidates(d, NonceText(k)) \subseteq
            (d.eat_nonce.items \cup LabelledTexts(d)) \ {NonceText(k)}
    BY <1>1, <1>2, NoncesOfToken DEF CertSha256Candidates
  <1> QED BY <1>5, <1>6, ItemsTell

-----------------------------------------------------------------------------
(* What a caller in the middle of a verification holds: the latest nonce   *)
(* and the evidence of one connection, or a receipt key and none.          *)
Holds(c, cs, k) ==
    /\ c.entry \in {"live", "document", "receipt_key"}
    /\ c.entry = "receipt_key" =>
          /\ c.certificate = {} /\ c.exporter = {}
          /\ \E w \in Workloads : c.nonce = {KeyText(w)}
    /\ c.entry # "receipt_key" =>
          /\ c.conn \in DOMAIN cs
          /\ c.nonce = {NonceText(k)}
          /\ c.certificate \in {{}, {CertText(cs[c.conn])}}
          /\ c.exporter \in {{}, {ExporterText(c.conn)}}

OfRelease(c) ==
    c.policy # {} => c.policy = PolicyFromTrustRelease(Releases[c.release], {})

(* What the three properties say of one answer, and that its connection    *)
(* stays where it is when others are opened.                               *)
Sound(a, cs) ==
    /\ a.entry = "receipt_key" => a.binding = "none"
    /\ a.entry # "receipt_key" => a.conn \in DOMAIN cs
    /\ a.ok =>
          /\ a.binding = "tls-exporter" =>
                a.document.over = a.conn /\ cs[a.conn] = a.document.by
          /\ a.binding = "tls-cert" => cs[a.conn] = a.document.by
          /\ a.certificate = {} /\ a.exporter = {} => a.binding = "none"
          /\ Image[a.document.by] \in Published(Releases[a.release])
          /\ a.document.by \notin Debug
          /\ a.at <= a.document.exp + Leeway
          /\ a.entry # "receipt_key" => a.nonce = {NonceText(a.document.drawn)}
          /\ a.entry = "receipt_key" => a.nonce = {KeyText(a.document.by)}
          /\ a.entry = "document" =>
                \A nonce \in a.nonce :
                    /\ nonce \notin CertSha256Candidates(a.document, nonce)
                    /\ \A peer : CertText(peer) \in
                                    CertSha256Candidates(a.document, nonce)
                                 <=> peer = a.document.by

(* A verification of a minted token gives a sound answer.                  *)
LEMMA SoundAnswer ==
    ASSUME drawn \in Nat, now \in Int, NEW d, Minted(d, conns, drawn),
           Holds(caller, conns, drawn), OfRelease(caller), caller.policy # {},
           NEW jwks
    PROVE  Sound(Answer(d, jwks), conns)
  <1> DEFINE o == AsOptions(caller)
             a == Answer(d, jwks)
  <1>1. /\ o.nonce = caller.nonce /\ o.certificate = caller.certificate
        /\ o.exporter = caller.exporter
        /\ o.policy \in PolicyFromTrustRelease(Releases[caller.release], {})
    BY DEF AsOptions, OfRelease
  <1> HIDE DEF o
  <1>2. /\ a.entry = caller.entry /\ a.conn = caller.conn /\ a.nonce = caller.nonce
        /\ a.certificate = caller.certificate /\ a.exporter = caller.exporter
        /\ a.document = d /\ a.release = caller.release /\ a.at = now
        /\ a.binding = ReportedBinding(caller.entry, o)
        /\ a.ok <=> \E keys \in jwks : Verified(caller.entry, d, o, keys, now)
    BY DEF Answer, o
  <1> HIDE DEF a
  <1>3. a.entry = "receipt_key" => a.binding = "none"
    BY <1>2 DEF ReportedBinding
  <1>4. a.entry # "receipt_key" => a.conn \in DOMAIN conns
    BY <1>2 DEF Holds
  <1>5. a.certificate = {} /\ a.exporter = {} => a.binding = "none"
    BY <1>1, <1>2 DEF ReportedBinding, Binding
  <1>6. ASSUME a.ok
        PROVE  /\ a.binding = "tls-exporter" =>
                     a.document.over = a.conn /\ conns[a.conn] = a.document.by
               /\ a.binding = "tls-cert" => conns[a.conn] = a.document.by
               /\ Image[d.by] \in Published(Releases[a.release])
               /\ d.by \notin Debug
               /\ now <= d.exp + Leeway
               /\ a.entry # "receipt_key" => a.nonce = {NonceText(d.drawn)}
               /\ a.entry = "receipt_key" => a.nonce = {KeyText(d.by)}
               /\ a.entry # "receipt_key" => d.drawn = drawn
    <2>1. PICK keys \in jwks : Verified(caller.entry, d, o, keys, now)
      BY <1>2, <1>6
    <2>2. CommonClaims(d, o.policy) /\ VerifiedJwtClaims(d, keys, o.policy, now)
      BY <2>1 DEF Verified, LiveClaims, DocumentClaims
    <2>3. Image[d.by] \in Published(Releases[a.release]) /\ d.by \notin Debug
      BY <1>1, <1>2, <2>2, PublishedImage DEF Minted
    <2>4. now <= d.exp + Leeway
      <3>1. d.exp \in Int /\ d.exp >= now - Leeway
        BY <2>2 DEF Minted, VerifiedJwtClaims, Decoded
      <3> QED BY <3>1, AttestationAssumption DEF AttestationAssumption
    <2>5. CASE caller.entry = "live"
      <3>1. LiveNonce(d, o) /\ ExporterBound(d, o) /\ CertBound(d, o)
        BY <2>1, <2>5 DEF Verified, LiveClaims
      <3>2. NonceText(drawn) \in d.eat_nonce.items
        BY <1>1, <2>5, <3>1, NoncesOfToken DEF Holds, LiveNonce
      <3>3. d.drawn = drawn
        BY <3>2, ItemsTell
      <3>4. a.nonce = {NonceText(drawn)}
        BY <1>2, <2>5 DEF Holds
      <3>5. a.binding = Binding(o)
        BY <1>2, <2>5 DEF ReportedBinding
      <3>6. ASSUME a.binding = "tls-exporter" PROVE d.over = a.conn
        <4>1. o.exporter = {ExporterText(a.conn)}
          BY <1>1, <1>2, <2>5, <3>5, <3>6 DEF Binding, Holds
        <4>2. ExporterText(a.conn) \in d.eat_nonce.items
          BY <3>1, <4>1, NoncesOfToken DEF ExporterBound
        <4> QED BY <4>2, ItemsTell
      <3>7. ASSUME a.binding = "tls-cert" PROVE conns[a.conn] = d.by
        <4>1. o.certificate = {CertText(conns[a.conn])}
          BY <1>1, <1>2, <2>5, <3>5, <3>7 DEF Binding, Holds
        <4> QED BY <3>1, <4>1, CertificateTells
      <3>8. d.by = conns[d.over]
        BY DEF Minted
      <3> QED BY <1>2, <2>3, <2>4, <2>5, <3>3, <3>4, <3>6, <3>7, <3>8
    <2>6. CASE caller.entry # "live"
      <3>1. DocumentNonce(d, o) /\ a.binding = "none"
        BY <1>2, <2>1, <2>6 DEF Verified, DocumentClaims, ReportedBinding
      <3>2. \A nonce \in caller.nonce : Lower(nonce) \in d.eat_nonce.items
        BY <1>1, <3>1, NoncesOfToken DEF DocumentNonce, InDocument
      <3>3. ASSUME caller.entry # "receipt_key"
            PROVE  a.nonce = {NonceText(drawn)} /\ d.drawn = drawn
        <4>1. a.nonce = {NonceText(drawn)}
          BY <1>2, <3>3 DEF Holds
        <4>2. NonceText(drawn) \in d.eat_nonce.items
          BY <1>2, <3>2, <4>1, TextsLower
        <4> QED BY <4>1, <4>2, ItemsTell
      <3>4. ASSUME caller.entry = "receipt_key" PROVE a.nonce = {KeyText(d.by)}
        <4>1. PICK w \in Workloads : a.nonce = {KeyText(w)}
          BY <1>2, <3>4 DEF Holds
        <4>2. KeyText(w) \in d.eat_nonce.items
          BY <1>2, <3>2, <4>1, TextsLower
        <4> QED BY <4>1, <4>2, ItemsTell
      <3> QED BY <1>2, <2>3, <2>4, <3>1, <3>3, <3>4
    <2> QED BY <2>5, <2>6
  <1>7. ASSUME a.ok, a.entry = "document", NEW nonce \in a.nonce
        PROVE  /\ nonce \notin CertSha256Candidates(d, nonce)
               /\ \A peer : CertText(peer) \in CertSha256Candidates(d, nonce)
                            <=> peer = d.by
    <2>1. nonce = NonceText(drawn)
      BY <1>6, <1>7
    <2> QED BY <2>1, CandidatesTell
  <1> QED BY <1>2, <1>3, <1>4, <1>5, <1>6, <1>7, ZenonT(60) DEF Sound, a

(* A key set as Google serves it: sound keys, each under its own id.       *)
Served(keys) == \A kid \in DOMAIN keys : keys[kid].key = kid /\ keys[kid].faults = {}

(* What Google serves is such a key set.                                   *)
LEMMA ServedIsServed == Served(ServedJwks)
  BY DEF Served, ServedJwks

(* The policy of a release lets a token of a published image through.      *)
LEMMA PublishedPasses ==
    ASSUME NEW d, NEW cs, NEW k, Minted(d, cs, k), d.by \notin Debug,
           NEW release, NEW p \in PolicyFromTrustRelease(release, {}),
           Image[d.by] \in Published(release), Answerable(release, d)
    PROVE  /\ CommonClaims(d, p) /\ WellFormed(d)
           /\ p.audience \in d.audiences /\ p.cert = {}
  <1> DEFINE listed == Accepted(NonEmpty(release.image_digest),
                                release.accepted_image_digests)
             named == Accepted(NonEmpty(release.image_reference),
                               release.accepted_image_references)
  <1>1. /\ p.image_digest = NonEmpty(release.image_digest)
        /\ p.image_digests = listed
        /\ p.image_reference = NonEmpty(release.image_reference)
        /\ p.image_references = named
        /\ p.cert = {}
        /\ p.audience = (IF release.audience = Empty
                         THEN "quill-cloud" ELSE release.audience)
    BY DEF PolicyFromTrustRelease
  <1>0. PinsImageIdentity(p)
    BY ZenonT(30) DEF PolicyFromTrustRelease
  <1>2. Accepted(p.image_digest, p.image_digests) = listed
    BY <1>1 DEF Accepted
  <1>3. Accepted(p.image_reference, p.image_references) = named
    BY <1>1 DEF Accepted
  <1>4. named = {} /\ p.audience \in d.audiences
    BY <1>1 DEF Answerable
  <1>5. d.image_digest \in listed \ {Empty}
    BY DEF Published, Minted
  <1> HIDE DEF listed, named
  <1>6. ImagePinned(d, p)
    BY <1>0, <1>2, <1>3, <1>4, <1>5 DEF ImagePinned, RequireOneOf
  <1>7. d.faults = {} /\ EatNonce(d).sound
    BY DEF Minted, EatNonce
  <1> QED BY <1>1, <1>4, <1>6, <1>7 DEF CommonClaims, WellFormed

(* On the connection that a token was minted on, with the certificate of   *)
(* that connection, the token is bound to the connection.                  *)
LEMMA OwnConnectionBinds ==
    ASSUME NEW d, NEW cs, NEW k \in Nat, Minted(d, cs, k),
           NEW o, o.policy.cert = {}, o.certificate = {CertText(d.by)},
           o.nonce = {NonceText(k)}, o.nonce \subseteq d.eat_nonce.items,
           o.exporter \in {{}, {ExporterText(d.over)}}
    PROVE  LiveNonce(d, o) /\ ExporterBound(d, o) /\ CertBound(d, o)
  <1>1. PICK n \in 1 .. d.drawn : d.eat_nonce.items =
             {NonceText(n), ExporterText(d.over), CertText(d.by), KeyText(d.by)}
    BY DEF Minted
  <1>2. LiveNonce(d, o)
    BY NoncesOfToken DEF LiveNonce
  <1>3. ExporterText(d.over) \in {Lower(t) : t \in Nonces(d)}
    BY <1>1, NoncesOfToken
  <1>4. ExporterText(d.over).digits = ExporterDigits
    BY DEF ExporterText, Text, ExporterDigits
  <1>5. Lower(NonceText(k)) # ExporterText(d.over)
    BY TextsLower, TextsApart
  <1>6. ExporterBound(d, o)
    BY <1>3, <1>4, <1>5 DEF ExporterBound
  <1>7. CertText(d.by) \in {Lower(t) : t \in Nonces(d)}
    BY <1>1, NoncesOfToken
  <1>8. Labelled(d).text \subseteq {CertText(d.by)}
    BY DEF Minted, Labelled, LabelledTexts
  <1>9. CertText(d.by) \in CertSha256(d, o)
    <2>1. CASE Labelled(d).text = {}
      BY <1>7, <2>1 DEF CertSha256
    <2>2. CASE Labelled(d).text # {}
      <3>1. CertText(d.by) \in Labelled(d).text /\ Lower(CertText(d.by)) = CertText(d.by)
        BY <1>8, <2>2, TextsLower
      <3>2. CertText(d.by) \in {Lower(t) : t \in Labelled(d).text}
        BY <3>1
      <3> QED BY <2>2, <3>2 DEF CertSha256
    <2> QED BY <2>1, <2>2
  <1>10. IsSha256Hex(CertText(d.by))
    BY DEF IsSha256Hex, CertText, Text
  <1>11. CertBound(d, o)
    BY <1>9, <1>10 DEF CertBound, RequireEqual
  <1> QED BY <1>2, <1>6, <1>11

(* A verification of a genuine token succeeds.                             *)
LEMMA GenuineIsAccepted ==
    ASSUME drawn \in Nat, now \in Int, NEW d, Minted(d, conns, drawn),
           Holds(caller, conns, drawn), OfRelease(caller), caller.policy # {},
           NEW jwks, \A keys \in jwks : Served(keys),
           Genuine(Answer(d, jwks))
    PROVE  Answer(d, jwks).ok
  <1> DEFINE o == AsOptions(caller)
             a == Answer(d, jwks)
  <1>1. /\ o.nonce = caller.nonce /\ o.certificate = caller.certificate
        /\ o.exporter = caller.exporter
        /\ o.policy \in PolicyFromTrustRelease(Releases[caller.release], {})
    BY DEF AsOptions, OfRelease
  <1> HIDE DEF o
  <1>2. /\ a.entry = caller.entry /\ a.conn = caller.conn /\ a.nonce = caller.nonce
        /\ a.certificate = caller.certificate /\ a.exporter = caller.exporter
        /\ a.document = d /\ a.release = caller.release /\ a.at = now
        /\ a.jwks = jwks
        /\ a.ok <=> \E keys \in jwks : Verified(caller.entry, d, o, keys, now)
    BY DEF Answer, o
  <1> HIDE DEF a
  <1>3. Genuine(a)
    BY DEF a
  <1>4. /\ Image[d.by] \in Published(Releases[caller.release]) /\ d.by \notin Debug
        /\ Answerable(Releases[caller.release], d)
        /\ now <= d.exp + Leeway
        /\ caller.nonce \subseteq d.eat_nonce.items
        /\ \E keys \in jwks : d.kid \in DOMAIN keys
        /\ caller.entry = "live" => d.over = caller.conn /\ caller.certificate # {}
    BY <1>2, <1>3 DEF Genuine
  <1>5. /\ CommonClaims(d, o.policy) /\ WellFormed(d)
        /\ o.policy.audience \in d.audiences /\ o.policy.cert = {}
    BY <1>1, <1>4, PublishedPasses
  <1>6. PICK keys \in jwks : d.kid \in DOMAIN keys
    BY <1>4
  <1>7. VerifiedJwtClaims(d, keys, o.policy, now)
    <2>1. d.exp \in Int /\ d.signer = d.kid /\ "iss" \notin d.faults /\ "exp" \notin d.faults
      BY <1>4 DEF Minted
    <2>2. d.exp >= now - Leeway
      BY <1>4, <2>1, AttestationAssumption DEF AttestationAssumption
    <2>3. keys[d.kid].key = d.kid /\ keys[d.kid].faults = {}
      BY <1>6 DEF Served
    <2> QED BY <1>5, <1>6, <2>1, <2>2, <2>3 DEF VerifiedJwtClaims, Decoded
  <1>8. CASE caller.entry = "live"
    <2>1. o.certificate = {CertText(d.by)} /\ o.nonce = {NonceText(drawn)}
      BY <1>1, <1>4, <1>8 DEF Holds, Minted
    <2>2. o.exporter \in {{}, {ExporterText(d.over)}}
      BY <1>1, <1>4, <1>8 DEF Holds
    <2>3. LiveClaims(d, o)
      BY <1>1, <1>4, <1>5, <2>1, <2>2, OwnConnectionBinds DEF LiveClaims
    <2>4. ~ Refused(caller.entry, o)
      BY <1>8 DEF Refused
    <2> QED BY <1>2, <1>5, <1>6, <1>7, <1>8, <2>3, <2>4 DEF Verified, a
  <1>9. CASE caller.entry # "live"
    <2>1. DocumentNonce(d, o)
      BY <1>1, <1>4, NoncesOfToken DEF DocumentNonce, InDocument, Minted
    <2>2. ~ Refused(caller.entry, o)
      <3>1. IsFreshNonceHex(NonceText(drawn))
        BY DEF IsFreshNonceHex, NonceText, Text
      <3>2. caller.entry = "document" => o.nonce = {NonceText(drawn)}
        BY <1>1 DEF Holds
      <3>3. caller.entry = "receipt_key" => o.nonce # {}
        BY <1>1 DEF Holds
      <3> QED BY <1>9, <3>1, <3>2, <3>3, ZenonT(30) DEF Holds, Refused
    <2> QED BY <1>2, <1>5, <1>6, <1>7, <1>9, <2>1, <2>2 DEF Verified, DocumentClaims, a
  <1> QED BY <1>8, <1>9

-----------------------------------------------------------------------------
Fields(c) ==
    c = [phase |-> c.phase, entry |-> c.entry, nonce |-> c.nonce, conn |-> c.conn,
         certificate |-> c.certificate, exporter |-> c.exporter,
         document |-> c.document, policy |-> c.policy, release |-> c.release,
         jwks |-> c.jwks]

(* The inductive invariant.  Tokens and answers are about connections that *)
(* never change, the nonce a caller waits for is the last one drawn, and   *)
(* its policy is of the release it remembers.                              *)
CallerInv(c, cs, k) ==
    /\ Fields(c)
    /\ c.phase \in {"idle", "asked", "fetching"}
    /\ OfRelease(c)
    /\ \A d \in c.document : Minted(d, cs, k)
    /\ c.phase # "idle" => Holds(c, cs, k)
    /\ c.phase = "fetching" => c.policy # {}
    /\ \A keys \in c.jwks : Served(keys)

CInv ==
    /\ now \in Nat /\ drawn \in Nat /\ conns \in Seq(Peers)
    /\ \A d \in tokens : Minted(d, conns, drawn)
    /\ CallerInv(caller, conns, drawn)
    /\ \A a \in answer : Sound(a, conns) /\ (Genuine(a) => a.ok)

(* The invariant holds initially.                                          *)
LEMMA InitCInv == Init => CInv
  <1> SUFFICES ASSUME Init PROVE CInv
    OBVIOUS
  <1>1. now \in Nat /\ drawn \in Nat /\ conns \in Seq(Peers)
    BY DEF Init
  <1>2. CallerInv(caller, conns, drawn)
    BY DEF Init, Idle, CallerInv, Fields, OfRelease
  <1> QED BY <1>1, <1>2 DEF Init, CInv

(* A connection more, or a nonce more, leaves what is known of a token.    *)
LEMMA MintedStays ==
    ASSUME NEW d, NEW cs \in Seq(Peers), NEW k \in Nat, Minted(d, cs, k),
           NEW peer \in Peers
    PROVE  Minted(d, Append(cs, peer), k) /\ Minted(d, cs, k + 1)
  <1>1. /\ d.over \in DOMAIN Append(cs, peer)
        /\ Append(cs, peer)[d.over] = cs[d.over]
    BY DEF Minted
  <1>2. d.drawn \in 0 .. k + 1
    BY DEF Minted
  <1> QED BY <1>1, <1>2 DEF Minted

(* A new connection keeps the invariant.                                   *)
LEMMA ConnectKeeps ==
    ASSUME NEW cs \in Seq(Peers), NEW peer \in Peers, NEW k
    PROVE  /\ \A c : Holds(c, cs, k) => Holds(c, Append(cs, peer), k)
           /\ \A a : Sound(a, cs) => Sound(a, Append(cs, peer))
  <1>1. \A c \in DOMAIN cs : /\ c \in DOMAIN Append(cs, peer)
                             /\ Append(cs, peer)[c] = cs[c]
    OBVIOUS
  <1>2. ASSUME NEW c, Holds(c, cs, k) PROVE Holds(c, Append(cs, peer), k)
    BY <1>1, <1>2 DEF Holds
  <1>3. ASSUME NEW a, Sound(a, cs) PROVE Sound(a, Append(cs, peer))
    BY <1>1, <1>3 DEF Sound
  <1> QED BY <1>2, <1>3

(* A workload's answer is a minted token.                                  *)
LEMMA TokenIsMinted ==
    ASSUME now \in Nat, drawn \in Nat, NEW c \in DOMAIN conns, NEW n \in 1 .. drawn,
           conns[c] \in Workloads
    PROVE  Minted(Token(conns[c], c, n), conns, drawn)
  <1> DEFINE w == conns[c]
             d == Token(w, c, n)
  <1>1. /\ d.over = c /\ d.by = w /\ d.drawn = drawn /\ d.exp = now + Lifetime
        /\ d.faults = (IF w \in Debug THEN {"dbgstat"} ELSE {})
        /\ d.image_digest = Image[w] /\ d.image_reference = Empty
        /\ d.signer = d.kid
        /\ d.eat_nonce.given = TRUE /\ d.eat_nonce.sound = TRUE
        /\ d.eat_nonce.items = {NonceText(n), ExporterText(c), CertText(w), KeyText(w)}
        /\ d.tls_cert.text = (IF w \in Labels THEN {CertText(w)} ELSE {})
        /\ d.workload_tls_cert.text = {}
    BY ZenonT(30) DEF Token
  <1> HIDE DEF d
  <1>2. d.exp \in Int
    BY <1>1, ChannelAssumption DEF ChannelAssumption
  <1>3. LabelledTexts(d) \subseteq {CertText(w)}
    BY <1>1 DEF LabelledTexts
  <1>4. Minted(d, conns, drawn)
    BY <1>1, <1>2, <1>3 DEF Minted
  <1> QED BY <1>4 DEF d

(* A release that pins nothing makes no policy.                            *)
LEMMA NoPolicyOfNothing ==
    PolicyFromTrustRelease([audience |-> Empty, image_digest |-> Empty,
                            accepted_image_digests |-> {}, image_reference |-> Empty,
                            accepted_image_references |-> {}], {}) = {}
  BY DEF PolicyFromTrustRelease, PinsImageIdentity, HasPin, Accepted, NonEmpty

(* A caller that is done keeps its policy and key set.                     *)
LEMMA DoneKeeps ==
    ASSUME CInv
    PROVE  CallerInv(Done, conns, drawn)
  <1>1. Fields(caller)
    BY DEF CInv, CallerInv
  <1>2. ASSUME NEW c, c = Done
        PROVE  c = [phase |-> "idle", entry |-> caller.entry, nonce |-> caller.nonce,
                    conn |-> caller.conn, certificate |-> caller.certificate,
                    exporter |-> caller.exporter, document |-> {},
                    policy |-> caller.policy, release |-> caller.release,
                    jwks |-> caller.jwks]
    BY <1>1, <1>2, ZenonT(30) DEF Done, Fields
  <1>3. ASSUME NEW c, c = Done PROVE CallerInv(c, conns, drawn)
    BY <1>2, <1>3 DEF CInv, CallerInv, Fields, OfRelease
  <1> QED BY <1>3

(* The steps of the world.                                                 *)
LEMMA WorldKeepsCInv ==
    ASSUME CInv,
           \/ Tick \/ Publish \/ Rotate \/ (\E peer \in Peers : Connect(peer))
           \/ \E c \in DOMAIN conns, n \in 1 .. drawn : Mint(c, n)
    PROVE  CInv'
  <1>1. CASE Tick
    BY <1>1 DEF Tick, CInv
  <1>2. CASE Publish \/ Rotate
    BY <1>2 DEF Publish, Rotate, CInv
  <1>3. ASSUME NEW peer \in Peers, Connect(peer) PROVE CInv'
    <2>1. /\ conns' = Append(conns, peer) /\ now' = now /\ drawn' = drawn
          /\ tokens' = tokens /\ caller' = caller /\ answer' = answer
      BY <1>3 DEF Connect
    <2>2. conns' \in Seq(Peers) /\ \A d : Minted(d, conns, drawn) => Minted(d, conns', drawn)
      BY <2>1, MintedStays DEF CInv
    <2>3. /\ Holds(caller, conns, drawn) => Holds(caller, conns', drawn)
          /\ \A a : Sound(a, conns) => Sound(a, conns')
      BY <2>1, ConnectKeeps DEF CInv
    <2>4. CallerInv(caller, conns', drawn)
      BY <2>2, <2>3 DEF CInv, CallerInv
    <2> QED BY <2>1, <2>2, <2>3, <2>4 DEF CInv
  <1>4. ASSUME NEW c \in DOMAIN conns, NEW n \in 1 .. drawn, Mint(c, n) PROVE CInv'
    <2>1. Minted(Token(conns[c], c, n), conns, drawn)
      BY <1>4, TokenIsMinted DEF Mint, CInv
    <2>2. /\ tokens' = tokens \cup {Token(conns[c], c, n)}
          /\ conns' = conns /\ now' = now /\ drawn' = drawn
          /\ caller' = caller /\ answer' = answer
      BY <1>4 DEF Mint
    <2> QED BY <2>1, <2>2 DEF CInv
  <1> QED BY <1>1, <1>2, <1>3, <1>4

(* The steps of the caller that start a verification or prepare one.       *)
LEMMA AskingKeepsCInv ==
    ASSUME CInv,
           \/ Prefetch \/ (\E degraded \in BOOLEAN : FetchRelease(degraded))
           \/ \E entry \in {"live", "document"}, c \in DOMAIN conns,
                 cert, exporter \in BOOLEAN : Challenge(entry, c, cert, exporter)
           \/ \E w \in Workloads, d \in tokens : ReceiptKey(w, d)
    PROVE  CInv'
  <1>1. Fields(caller)
    BY DEF CInv, CallerInv
  <1>2. CASE Prefetch
    <2>1. /\ caller' = [phase |-> caller.phase, entry |-> caller.entry,
                        nonce |-> caller.nonce, conn |-> caller.conn,
                        certificate |-> caller.certificate,
                        exporter |-> caller.exporter, document |-> caller.document,
                        policy |-> caller.policy, release |-> caller.release,
                        jwks |-> IF caller.jwks = {} THEN {ServedJwks} ELSE {}]
          /\ caller.phase = "idle"
          /\ now' = now /\ drawn' = drawn /\ conns' = conns /\ tokens' = tokens
          /\ answer' = answer
      BY <1>1, <1>2 DEF Prefetch, Fields
    <2>2. \A keys \in caller'.jwks : Served(keys)
      BY <2>1, ServedIsServed
    <2>3. CallerInv(caller', conns, drawn)
      BY <2>1, <2>2 DEF CInv, CallerInv, Fields, OfRelease
    <2> QED BY <2>1, <2>3 DEF CInv
  <1>3. ASSUME NEW degraded \in BOOLEAN, FetchRelease(degraded) PROVE CInv'
    <2> DEFINE p == PolicyFromTrustRelease(Releases[stage], {})
    <2>1. /\ caller.phase = "idle"
          /\ now' = now /\ drawn' = drawn /\ conns' = conns /\ tokens' = tokens
          /\ answer' = answer
      BY <1>3, ZenonT(30) DEF FetchRelease
    <2>2. caller' = caller \/ caller' = [caller EXCEPT !.policy = p, !.release = stage]
      BY <1>3, NoPolicyOfNothing, ZenonT(30) DEF FetchRelease
    <2> HIDE DEF p
    <2>3. CASE caller' = caller
      BY <2>1, <2>3 DEF CInv
    <2>4. CASE caller' = [caller EXCEPT !.policy = p, !.release = stage]
      <3>1. caller' = [phase |-> "idle", entry |-> caller.entry,
                        nonce |-> caller.nonce, conn |-> caller.conn,
                        certificate |-> caller.certificate,
                        exporter |-> caller.exporter, document |-> caller.document,
                        policy |-> p, release |-> stage, jwks |-> caller.jwks]
        BY <1>1, <2>1, <2>4, ZenonT(30) DEF Fields
      <3>2. OfRelease(caller')
        BY <3>1 DEF OfRelease, p
      <3>3. CallerInv(caller', conns, drawn)
        BY <3>1, <3>2 DEF CInv, CallerInv, Fields
      <3> QED BY <2>1, <3>3 DEF CInv
    <2> QED BY <2>2, <2>3, <2>4
  <1>4. ASSUME NEW entry \in {"live", "document"}, NEW c \in DOMAIN conns,
               NEW cert \in BOOLEAN, NEW exporter \in BOOLEAN,
               Challenge(entry, c, cert, exporter)
        PROVE  CInv'
    <2> DEFINE crt == IF cert THEN {CertText(conns[c])} ELSE {}
               exo == IF exporter THEN {ExporterText(c)} ELSE {}
    <2>1. /\ caller' = [caller EXCEPT
                     !.phase = "asked", !.entry = entry, !.conn = c,
                     !.nonce = {NonceText(drawn + 1)},
                     !.certificate = crt, !.exporter = exo]
          /\ drawn' = drawn + 1 /\ answer' = {}
          /\ now' = now /\ conns' = conns /\ tokens' = tokens
      BY <1>4, ZenonT(30) DEF Challenge
    <2>2. crt \in {{}, {CertText(conns[c])}} /\ exo \in {{}, {ExporterText(c)}}
      OBVIOUS
    <2> HIDE DEF crt, exo
    <2>3. caller' = [phase |-> "asked", entry |-> entry, nonce |-> {NonceText(drawn + 1)},
                     conn |-> c, certificate |-> crt, exporter |-> exo,
                     document |-> caller.document, policy |-> caller.policy,
                     release |-> caller.release, jwks |-> caller.jwks]
      BY <1>1, <2>1, ZenonT(30) DEF Fields
    <2>4. Holds(caller', conns, drawn + 1)
      BY <2>2, <2>3 DEF Holds
    <2>5. \A d : Minted(d, conns, drawn) => Minted(d, conns, drawn + 1)
      <3>1. Relay \in Peers
        BY DEF Peers
      <3> QED BY <3>1, MintedStays, ZenonT(30) DEF CInv
    <2>6. CallerInv(caller', conns, drawn + 1)
      BY <2>3, <2>4, <2>5 DEF CInv, CallerInv, Fields, OfRelease
    <2> QED BY <2>1, <2>5, <2>6 DEF CInv
  <1>5. ASSUME NEW w \in Workloads, NEW d \in tokens, ReceiptKey(w, d) PROVE CInv'
    <2> DEFINE p == PolicyFromTrustRelease(Releases[stage], {})
    <2>1. /\ caller' = [caller EXCEPT
                         !.phase = "fetching", !.entry = "receipt_key",
                         !.nonce = {KeyText(w)}, !.conn = 0, !.certificate = {},
                         !.exporter = {}, !.document = {d}, !.policy = p,
                         !.release = stage, !.jwks = {}]
          /\ p # {} /\ answer' = {}
          /\ now' = now /\ drawn' = drawn /\ conns' = conns /\ tokens' = tokens
      BY <1>5, ZenonT(30) DEF ReceiptKey
    <2> HIDE DEF p
    <2>2. caller' = [phase |-> "fetching", entry |-> "receipt_key",
                     nonce |-> {KeyText(w)}, conn |-> 0, certificate |-> {},
                     exporter |-> {}, document |-> {d}, policy |-> p,
                     release |-> stage, jwks |-> {}]
      BY <1>1, <2>1, ZenonT(30) DEF Fields
    <2>3. Holds(caller', conns, drawn)
      BY <2>2 DEF Holds
    <2>4. OfRelease(caller')
      BY <2>2 DEF OfRelease, p
    <2>5. Fields(caller')
      BY <2>2 DEF Fields
    <2>6. \A e \in caller'.document : Minted(e, conns, drawn)
      BY <2>2 DEF CInv
    <2>7. caller'.phase = "fetching" /\ caller'.policy # {}
      BY <2>1, <2>2
    <2>8. \A keys \in caller'.jwks : Served(keys)
      BY <2>2
    <2>9. CallerInv(caller', conns, drawn)
      BY <2>3, <2>4, <2>5, <2>6, <2>7, <2>8 DEF CallerInv
    <2> QED BY <2>1, <2>9 DEF CInv
  <1> QED BY <1>2, <1>3, <1>4, <1>5

(* The steps of the caller that end a verification or go on with it.       *)
LEMMA AnsweringKeepsCInv ==
    ASSUME CInv,
           \/ Abandon \/ (\E d \in tokens : Submit(d))
           \/ \E fetched \in BOOLEAN : JwksArrives(fetched)
    PROVE  CInv'
  <1>0. drawn \in Nat /\ now \in Int
    BY DEF CInv
  <1>1. CASE Abandon
    BY <1>1, DoneKeeps DEF Abandon, CInv
  <1>2. ASSUME NEW d \in tokens, Submit(d) PROVE CInv'
    <2>1. /\ caller.phase = "asked" /\ caller.policy # {}
          /\ now' = now /\ drawn' = drawn /\ conns' = conns /\ tokens' = tokens
      BY <1>2, ZenonT(30) DEF Submit
    <2>2. Minted(d, conns, drawn) /\ Holds(caller, conns, drawn) /\ OfRelease(caller)
      BY <2>1 DEF CInv, CallerInv
    <2>3. CASE answer' = {Answer(d, caller.jwks)} /\ caller' = Done
      <3>1. Sound(Answer(d, caller.jwks), conns)
        BY <1>0, <2>1, <2>2, SoundAnswer, ZenonT(30)
      <3>2. Genuine(Answer(d, caller.jwks)) => Answer(d, caller.jwks).ok
        <4>1. \A keys \in caller.jwks : Served(keys)
          BY DEF CInv, CallerInv
        <4> QED BY <1>0, <2>1, <2>2, <4>1, GenuineIsAccepted, ZenonT(30)
      <3> QED BY <2>1, <2>3, <3>1, <3>2, DoneKeeps DEF CInv
    <2>4. CASE /\ caller' = [caller EXCEPT !.phase = "fetching", !.document = {d}]
               /\ answer' = answer
      <3>1. Fields(caller)
        BY DEF CInv, CallerInv
      <3>2. caller' = [phase |-> "fetching", entry |-> caller.entry,
                       nonce |-> caller.nonce, conn |-> caller.conn,
                       certificate |-> caller.certificate,
                       exporter |-> caller.exporter, document |-> {d},
                       policy |-> caller.policy, release |-> caller.release,
                       jwks |-> caller.jwks]
        BY <2>4, <3>1, ZenonT(30) DEF Fields
      <3>3. Fields(caller')
        BY <3>2 DEF Fields
      <3>4. Holds(caller', conns, drawn)
        BY <2>2, <3>2 DEF Holds
      <3>5. OfRelease(caller')
        BY <2>2, <3>2 DEF OfRelease
      <3>6. \A e \in caller'.document : Minted(e, conns, drawn)
        BY <2>2, <3>2
      <3>7. caller'.phase = "fetching" /\ caller'.policy # {}
        BY <2>1, <3>2
      <3>8. \A keys \in caller'.jwks : Served(keys)
        BY <3>2 DEF CInv, CallerInv
      <3>9. CallerInv(caller', conns, drawn)
        BY <3>3, <3>4, <3>5, <3>6, <3>7, <3>8 DEF CallerInv
      <3> QED BY <2>1, <2>4, <3>9 DEF CInv
    <2> QED BY <1>2, <2>3, <2>4, ZenonT(30) DEF Submit
  <1>3. ASSUME NEW fetched \in BOOLEAN, JwksArrives(fetched) PROVE CInv'
    <2> DEFINE jwks == IF fetched THEN {ServedJwks} ELSE {}
    <2>1. /\ caller.phase = "fetching" /\ caller' = Done
          /\ now' = now /\ drawn' = drawn /\ conns' = conns /\ tokens' = tokens
      BY <1>3 DEF JwksArrives
    <2>2. PICK d \in caller.document : answer' = {Answer(d, jwks)}
      BY <1>3 DEF JwksArrives
    <2> HIDE DEF jwks
    <2>3. /\ Minted(d, conns, drawn) /\ Holds(caller, conns, drawn)
          /\ OfRelease(caller) /\ caller.policy # {}
      BY <2>1 DEF CInv, CallerInv
    <2>4. Sound(Answer(d, jwks), conns)
      BY <1>0, <2>3, SoundAnswer, SMTT(30)
    <2>5. \A keys \in jwks : Served(keys)
      BY ServedIsServed DEF jwks
    <2>6. Genuine(Answer(d, jwks)) => Answer(d, jwks).ok
      BY <1>0, <2>3, <2>5, GenuineIsAccepted, SMTT(30)
    <2> QED BY <2>1, <2>2, <2>4, <2>6, DoneKeeps DEF CInv
  <1> QED BY <1>1, <1>2, <1>3

(* Every step keeps the invariant.                                         *)
LEMMA NextCInv == CInv /\ [Next]_vars => CInv'
  <1> SUFFICES ASSUME CInv, [Next]_vars PROVE CInv'
    OBVIOUS
  <1>1. CASE UNCHANGED vars
    BY <1>1 DEF vars, CInv
  <1>2. CASE Next
    BY <1>2, WorldKeepsCInv, AskingKeepsCInv, AnsweringKeepsCInv DEF Next
  <1> QED BY <1>1, <1>2

(* The invariant is what the properties need.                              *)
LEMMA CInvIsEnough ==
    CInv => /\ BindingIsEarned /\ AcceptedIsPublishedAndFresh
            /\ CandidatesNameTheWorkload /\ GatewayIsNotRefused
  <1> SUFFICES ASSUME CInv
               PROVE  /\ BindingIsEarned /\ AcceptedIsPublishedAndFresh
                      /\ CandidatesNameTheWorkload /\ GatewayIsNotRefused
    OBVIOUS
  <1>1. \A a \in Accepts : Sound(a, conns) /\ a.ok
    BY DEF CInv, Accepts
  <1>2. BindingIsEarned
    BY <1>1 DEF BindingIsEarned, Sound
  <1>3. AcceptedIsPublishedAndFresh
    BY <1>1 DEF AcceptedIsPublishedAndFresh, Sound
  <1>4. CandidatesNameTheWorkload
    BY <1>1 DEF CandidatesNameTheWorkload, Sound
  <1>5. GatewayIsNotRefused
    BY DEF CInv, GatewayIsNotRefused
  <1> QED BY <1>2, <1>3, <1>4, <1>5

(* Whatever workloads, releases and relays there are and however they      *)
(* interleave, the binding a caller is told of is earned: an exporter      *)
(* means its own session, a certificate the workload that holds it         *)
(* (verify_claims).                                                        *)
THEOREM BindingEarned == Spec => []BindingIsEarned
  BY InitCInv, NextCInv, CInvIsEnough, PTL DEF Spec

(* For any releases, published and fetched at any time, an accepted token  *)
(* is of a published image, outside debug mode, unexpired, minted after    *)
(* the challenge, and vouches for its own workload's receipt key only      *)
(* (policy_from_trust_release, verify_claims, verify_gcp_attestation).     *)
THEOREM PublishedAndFresh == Spec => []AcceptedIsPublishedAndFresh
  BY InitCInv, NextCInv, CInvIsEnough, PTL DEF Spec

(* The candidates of a verified document hold the certificate of the       *)
(* workload that minted it and of no other peer (cert_sha256_candidates).  *)
THEOREM CandidatesAreTheWorkloads == Spec => []CandidatesNameTheWorkload
  BY InitCInv, NextCInv, CInvIsEnough, PTL DEF Spec

(* For any releases and workloads and any order of events, a genuine token *)
(* is not refused, by any entry point: neither a rollout nor a rotation of *)
(* keys between two fetches locks a caller out (accepted_image_digests,    *)
(* verify_claims).                                                         *)
THEOREM GatewayNotRefused == Spec => []GatewayIsNotRefused
  BY InitCInv, NextCInv, CInvIsEnough, PTL DEF Spec
=============================================================================
