--------------------------- MODULE AttestedChannel --------------------------
(***************************************************************************)
(* A caller attests the gateway it talks to while the world moves on: the  *)
(* operator publishes trust releases and rolls images out, Google rotates  *)
(* its keys, tokens expire, and what answers the caller's connection may   *)
(* be a workload or something that terminates TLS in between and asks the  *)
(* gateway over a connection of its own.                                   *)
(*                                                                         *)
(* The operators of Attestation decide.  This module has the asynchronous  *)
(* part: the policy is of the release fetched some time ago, the key set   *)
(* was prefetched or is fetched in the middle of the verification, and the *)
(* token may be any token ever minted.  The fields by, over and drawn of a *)
(* token are history that no verification reads: the workload that minted  *)
(* it, the connection it was asked on, the nonces drawn by then.           *)
(***************************************************************************)
EXTENDS Attestation, Sequences

CONSTANTS
    Workloads,      \* the attested workloads, the operator's and others'
    Image,          \* [Workloads -> their image digest]
    Debug,          \* the workloads that run in debug mode
    Labels,         \* the workloads whose tokens label their certificate
    Releases,       \* the trust releases, in the order they are published
    Lifetime,       \* seconds a token lives
    MaxTime,        \* bound: seconds
    MaxKeys,        \* bound: signing keys Google ever uses
    MaxConnections, \* bound: connections ever opened
    MaxNonces,      \* bound: nonces ever drawn
    MaxTokens       \* bound: tokens ever minted

Relay == "relay"

Peers == Workloads \cup {Relay}

ASSUME ChannelAssumption ==
    /\ Relay \notin Workloads
    /\ Image \in [Workloads -> STRING]
    /\ \A w \in Workloads : Image[w] # Empty
    /\ Debug \subseteq Workloads /\ Labels \subseteq Workloads
    /\ Lifetime \in Nat /\ Len(Releases) >= 1

VARIABLES now, stage, signing, conns, drawn, tokens, caller, answer

vars == << now, stage, signing, conns, drawn, tokens, caller, answer >>

(* The texts there are; two of different origin never coincide.            *)
NonceText(n) == Text(<< "nonce", n >>, 64)

ExporterText(c) == Text(<< "exporter", c >>, 64)

CertText(w) == Text(<< "cert", w >>, 64)

(* The commitment to a workload's receipt-signing key.                     *)
KeyText(w) == Text(<< "key", w >>, 64)

(* Google serves the key it signs with and the one before.                 *)
ServedJwks == [kid \in {signing - 1, signing} |-> [key |-> kid, faults |-> {}]]

Idle ==
    [phase |-> "idle", entry |-> "live", nonce |-> {}, conn |-> 0,
     certificate |-> {}, exporter |-> {}, document |-> {}, policy |-> {},
     release |-> 0, jwks |-> {}]

Init ==
    /\ now = 0 /\ stage = 1 /\ signing = 1
    /\ conns = << >> /\ drawn = 0 /\ tokens = {}
    /\ caller = Idle
    /\ answer = {}

-----------------------------------------------------------------------------
(* The world.                                                              *)
Tick ==
    /\ now < MaxTime
    /\ now' = now + 1
    /\ UNCHANGED << stage, signing, conns, drawn, tokens, caller, answer >>

Publish ==
    /\ stage < Len(Releases)
    /\ stage' = stage + 1
    /\ UNCHANGED << now, signing, conns, drawn, tokens, caller, answer >>

Rotate ==
    /\ signing < MaxKeys
    /\ signing' = signing + 1
    /\ UNCHANGED << now, stage, conns, drawn, tokens, caller, answer >>

(* A connection, of the caller or of a relay to the gateway.               *)
Connect(peer) ==
    /\ Len(conns) < MaxConnections
    /\ conns' = Append(conns, peer)
    /\ UNCHANGED << now, stage, signing, drawn, tokens, caller, answer >>

Token(w, c, n) ==
    [by |-> w, over |-> c, drawn |-> drawn,
     faults |-> IF w \in Debug THEN {"dbgstat"} ELSE {},
     kid |-> signing, signer |-> signing, audiences |-> {"quill-cloud"},
     exp |-> now + Lifetime, image_digest |-> Image[w], image_reference |-> Empty,
     eat_nonce |-> [given |-> TRUE, sound |-> TRUE,
                    items |-> {NonceText(n), ExporterText(c), CertText(w), KeyText(w)}],
     nonces |-> [given |-> FALSE, sound |-> TRUE, items |-> {}],
     tls_cert |-> [given |-> w \in Labels,
                   text |-> IF w \in Labels THEN {CertText(w)} ELSE {}],
     workload_tls_cert |-> [given |-> FALSE, text |-> {}]]

(* A workload answers /attestation?nonce= on a connection it terminates.   *)
Mint(c, n) ==
    /\ Cardinality(tokens) < MaxTokens
    /\ conns[c] \in Workloads
    /\ tokens' = tokens \cup {Token(conns[c], c, n)}
    /\ UNCHANGED << now, stage, signing, conns, drawn, caller, answer >>

-----------------------------------------------------------------------------
(* The caller.                                                             *)

(* policy_from_trust_release on the release served now; nothing changes if *)
(* it is refused.                                                          *)
FetchRelease(degraded) ==
    LET release == IF degraded THEN [audience |-> Empty, image_digest |-> Empty,
                                     accepted_image_digests |-> {},
                                     image_reference |-> Empty,
                                     accepted_image_references |-> {}]
                   ELSE Releases[stage]
        policy == PolicyFromTrustRelease(release, {})
    IN  /\ caller.phase = "idle"
        /\ caller' = IF policy = {} THEN caller
                     ELSE [caller EXCEPT !.policy = policy, !.release = stage]
        /\ UNCHANGED << now, stage, signing, conns, drawn, tokens, answer >>

(* The key set is fetched ahead of time, or dropped again.                 *)
Prefetch ==
    /\ caller.phase = "idle"
    /\ caller' = [caller EXCEPT !.jwks = IF @ = {} THEN {ServedJwks} ELSE {}]
    /\ UNCHANGED << now, stage, signing, conns, drawn, tokens, answer >>

(* A fresh nonce, and the connection's evidence as far as it is visible.   *)
Challenge(entry, c, cert, exporter) ==
    /\ caller.phase = "idle" /\ drawn < MaxNonces
    /\ entry = "document" => ~ cert /\ ~ exporter
    /\ drawn' = drawn + 1
    /\ caller' = [caller EXCEPT
                     !.phase = "asked", !.entry = entry, !.conn = c,
                     !.nonce = {NonceText(drawn + 1)},
                     !.certificate = IF cert THEN {CertText(conns[c])} ELSE {},
                     !.exporter = IF exporter THEN {ExporterText(c)} ELSE {}]
    /\ answer' = {}
    /\ UNCHANGED << now, stage, signing, conns, tokens >>

(* verify_gcp_attestation: the key of a receipt, and the release fetched   *)
(* there and then.  One that cannot be fetched, or pins nothing, ends it.  *)
ReceiptKey(w, d) ==
    LET policy == PolicyFromTrustRelease(Releases[stage], {})
    IN  /\ caller.phase = "idle" /\ policy # {}
        /\ caller' = [caller EXCEPT
                         !.phase = "fetching", !.entry = "receipt_key",
                         !.nonce = {KeyText(w)}, !.conn = 0, !.certificate = {},
                         !.exporter = {}, !.document = {d}, !.policy = policy,
                         !.release = stage, !.jwks = {}]
        /\ answer' = {}
        /\ UNCHANGED << now, stage, signing, conns, drawn, tokens >>

AsOptions(who) ==
    [policy |-> CHOOSE p \in who.policy : TRUE, nonce |-> who.nonce,
     certificate |-> who.certificate, exporter |-> who.exporter]

(* The rest of a verification, once there is a key set; jwks is empty when *)
(* fetching it failed.                                                     *)
Answer(d, jwks) ==
    LET o == AsOptions(caller)
    IN  [ok |-> \E keys \in jwks : Verified(caller.entry, d, o, keys, now),
         binding |-> ReportedBinding(caller.entry, o),
         entry |-> caller.entry, nonce |-> caller.nonce, conn |-> caller.conn,
         certificate |-> caller.certificate, exporter |-> caller.exporter,
         document |-> d, release |-> caller.release, jwks |-> jwks, at |-> now]

Done == [caller EXCEPT !.phase = "idle", !.document = {}]

(* A token arrives, of this challenge or an older one, and is verified.    *)
(* Without a prefetched key set the verification suspends to fetch one.    *)
Submit(d) ==
    /\ caller.phase = "asked" /\ caller.policy # {}
    /\ IF caller.jwks # {} \/ Refused(caller.entry, AsOptions(caller)) \/ ~ WellFormed(d)
       THEN /\ answer' = {Answer(d, caller.jwks)}
            /\ caller' = Done
       ELSE /\ caller' = [caller EXCEPT !.phase = "fetching", !.document = {d}]
            /\ UNCHANGED answer
    /\ UNCHANGED << now, stage, signing, conns, drawn, tokens >>

(* fetch_jwks returns, or fails.                                           *)
JwksArrives(fetched) ==
    /\ caller.phase = "fetching"
    /\ \E d \in caller.document :
          answer' = {Answer(d, IF fetched THEN {ServedJwks} ELSE {})}
    /\ caller' = Done
    /\ UNCHANGED << now, stage, signing, conns, drawn, tokens >>

(* The caller gives up on a challenge.                                     *)
Abandon ==
    /\ caller.phase = "asked"
    /\ caller' = Done
    /\ UNCHANGED << now, stage, signing, conns, drawn, tokens, answer >>

Next ==
    \/ Tick \/ Publish \/ Rotate \/ Prefetch \/ Abandon
    \/ \E peer \in Peers : Connect(peer)
    \/ \E c \in DOMAIN conns, n \in 1 .. drawn : Mint(c, n)
    \/ \E degraded \in BOOLEAN : FetchRelease(degraded)
    \/ \E entry \in {"live", "document"}, c \in DOMAIN conns, cert, exporter \in BOOLEAN :
          Challenge(entry, c, cert, exporter)
    \/ \E w \in Workloads, d \in tokens : ReceiptKey(w, d)
    \/ \E d \in tokens : Submit(d)
    \/ \E fetched \in BOOLEAN : JwksArrives(fetched)

Spec == Init /\ [][Next]_vars

-----------------------------------------------------------------------------
Accepts == {a \in answer : a.ok}

(* What a release says its images are.                                     *)
Published(release) ==
    Accepted(NonEmpty(release.image_digest), release.accepted_image_digests) \ {Empty}

(* The binding a caller is told of is earned.  "tls-exporter" means that   *)
(* the token was asked for inside the caller's own session and minted by   *)
(* the workload at its other end, "tls-cert" that this workload holds the  *)
(* certificate of the caller's connection.  A token relayed from another   *)
(* session never raises it, and where no evidence of the connection was    *)
(* given none is claimed (verify_claims).                                  *)
BindingIsEarned ==
    \A a \in Accepts :
        /\ a.binding = "tls-exporter" =>
              a.document.over = a.conn /\ conns[a.conn] = a.document.by
        /\ a.binding = "tls-cert" => conns[a.conn] = a.document.by
        /\ a.certificate = {} /\ a.exporter = {} => a.binding = "none"

(* Whatever was fetched when, an accepted token was minted by a workload   *)
(* of an image that the release behind the policy publishes, outside debug *)
(* mode, has not expired, was minted after the challenge was drawn, and    *)
(* vouches for the receipt key of nobody but its own workload              *)
(* (verify_claims, policy_from_trust_release, verify_gcp_attestation).     *)
AcceptedIsPublishedAndFresh ==
    \A a \in Accepts :
        LET d == a.document
        IN  /\ Image[d.by] \in Published(Releases[a.release])
            /\ d.by \notin Debug
            /\ a.at <= d.exp + Leeway
            /\ a.entry # "receipt_key" => a.nonce = {NonceText(d.drawn)}
            /\ a.entry = "receipt_key" => a.nonce = {KeyText(d.by)}

(* A caller that cannot see its certificate until later compares it with   *)
(* the candidates of a verified document: they hold the certificate of the *)
(* workload that minted it, of no other peer, and not the caller's own     *)
(* challenge (cert_sha256_candidates).                                     *)
CandidatesNameTheWorkload ==
    \A a \in Accepts : a.entry = "document" =>
        \A nonce \in a.nonce :
            LET candidates == CertSha256Candidates(a.document, nonce)
            IN  /\ nonce \notin candidates
                /\ \A peer \in Peers :
                      CertText(peer) \in candidates <=> peer = a.document.by

(* The policy of a release asks nothing that the tokens of this world have *)
(* not: it is for their audience and pins no image reference.              *)
Answerable(release, d) ==
    /\ (IF release.audience = Empty THEN "quill-cloud" ELSE release.audience)
          \in d.audiences
    /\ Accepted(NonEmpty(release.image_reference),
                release.accepted_image_references) = {}

(* A token that a workload of a published image minted for the challenge   *)
(* of an answer, in time and under a key of the set; for live verification *)
(* on its own connection, whose certificate the caller sees.               *)
Genuine(a) ==
    LET d == a.document
    IN  /\ Image[d.by] \in Published(Releases[a.release]) /\ d.by \notin Debug
        /\ Answerable(Releases[a.release], d)
        /\ a.at <= d.exp + Leeway
        /\ a.nonce \subseteq d.eat_nonce.items
        /\ \E jwks \in a.jwks : d.kid \in DOMAIN jwks
        /\ a.entry = "live" => d.over = a.conn /\ a.certificate # {}

(* The gateway is not refused: a genuine token passes every entry point,   *)
(* whatever happened between the fetch of the release, the challenge and   *)
(* the fetch of the keys.  So a staged rollout never locks out callers     *)
(* that hold the release of the stage (accepted_image_digests).            *)
GatewayIsNotRefused == \A a \in answer : Genuine(a) => a.ok
=============================================================================
