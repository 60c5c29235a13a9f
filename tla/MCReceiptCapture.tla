-------------------------- MODULE MCReceiptCapture --------------------------
(* Receipts over a two-event stream, a plain body, and the options of a    *)
(* caller.                                                                 *)
EXTENDS ReceiptCapture

Issuer(origin, spelling) == [origin |-> origin, spelling |-> spelling]

Document(id, key) == [id |-> id, key |-> key]

(* A flattened receipt over the stream (delta, a), (unnamed, b).           *)
EventsReceipt ==
    [id |-> "events", flattened |-> TRUE, faults |-> {}, key |-> "k1",
     iss |-> Issuer("apex", "canonical"), iat |-> 10,
     att_sha256 |-> NoDocument, nonce |-> "n1", tier |-> "tls-webpki",
     verified_at |-> 0, expires_at |-> 0, policy |-> FALSE, req |-> "q1",
     of |-> "sse-events-v1", resp |-> << "delta", "a", Absent, "b" >>,
     events |-> 2, att_kind |-> "gcp-cs-jwt", att |-> Document(1, "k1")]

DataReceipt ==
    [EventsReceipt EXCEPT !.id = "data", !.of = "sse-data-v1",
                          !.resp = << "b", "b" >>, !.events = None]

(* A compact receipt over a plain body, its evidence elsewhere.            *)
CompactReceipt ==
    [EventsReceipt EXCEPT
        !.id = "compact", !.flattened = FALSE, !.att_sha256 = Document(1, "k1"),
        !.of = "body", !.resp = << "b" >>, !.events = None,
        !.att_kind = Absent, !.att = NoDocument]

(* A compact receipt that signs the same stream.                           *)
CompactOfStream ==
    [DataReceipt EXCEPT !.id = "compact_stream", !.flattened = FALSE,
                        !.att_sha256 = Document(1, "k1"),
                        !.att_kind = Absent, !.att = NoDocument]

Event(kind, name, payload) == [kind |-> kind, name |-> name, payload |-> payload]

MCEvents ==
    {Event("data", "delta", "a"), Event("data", Absent, "b"),
     Event("receipt", Absent, "events"), Event("receipt", "note", "data"),
     Event("done", Absent, Absent), Event("rejected", Absent, Absent)}

Defaults ==
    [issuer |-> Issuer("apex", "slash"), request |-> "q1", body |-> Absent,
     stream |-> NoStream, nonce |-> Absent, max_age |-> None, now |-> 20,
     attestation |-> NoDocument, require_attestation |-> TRUE,
     require_bindings |-> TRUE, reachable |-> TRUE]

(* The stream that DataReceipt signs.                                      *)
SomeStream ==
    [given |-> TRUE, partial |-> FALSE,
     events |-> << Event("data", Absent, "b"), Event("data", Absent, "b"),
                   Event("receipt", "note", "data"), Event("done", Absent, Absent) >>]

MCOptions ==
    {Defaults,
     [Defaults EXCEPT !.stream = SomeStream],
     [Defaults EXCEPT !.body = "b", !.attestation = Document(1, "k1")],
     [Defaults EXCEPT !.request = Absent],
     [Defaults EXCEPT !.request = Absent, !.require_bindings = FALSE],
     [Defaults EXCEPT !.request = "q2", !.require_bindings = FALSE]}

-----------------------------------------------------------------------------
(* Receipts that differ from a sound one in one respect or are wrong in    *)
(* one of their parts.                                                     *)
BodyReceipt ==
    [CompactReceipt EXCEPT
        !.id = "body", !.flattened = TRUE, !.att_sha256 = NoDocument,
        !.att_kind = "gcp-cs-jwt", !.att = Document(1, "k1")]

TeeReceipt ==
    [BodyReceipt EXCEPT !.id = "tee", !.tier = "tee-verified", !.policy = TRUE,
                        !.verified_at = 10, !.expires_at = 11]

Renamed(r, id) == [r EXCEPT !.id = id]

MCKnown ==
    {EventsReceipt, DataReceipt, CompactReceipt, CompactOfStream, BodyReceipt,
     TeeReceipt,
     Renamed([TeeReceipt EXCEPT !.policy = FALSE], "no_policy"),
     Renamed([TeeReceipt EXCEPT !.expires_at = 10], "window_over"),
     Renamed([TeeReceipt EXCEPT !.tier = "other"], "other_tier"),
     Renamed([BodyReceipt EXCEPT !.nonce = Absent], "no_nonce"),
     Renamed([BodyReceipt EXCEPT !.iat = 81], "future"),
     Renamed([BodyReceipt EXCEPT !.iat = 80], "skewed"),
     Renamed([BodyReceipt EXCEPT !.iss = Issuer("apex", "http")], "http"),
     Renamed([BodyReceipt EXCEPT !.iss = Issuer("other", "canonical")], "elsewhere"),
     Renamed([BodyReceipt EXCEPT !.att_kind = Absent], "no_kind"),
     Renamed([BodyReceipt EXCEPT !.att_kind = "aws-nitro-cose"], "nitro"),
     Renamed([BodyReceipt EXCEPT !.att = NoDocument], "no_evidence"),
     Renamed([BodyReceipt EXCEPT !.att = Document(2, "k2")], "alien_evidence"),
     Renamed([CompactReceipt EXCEPT !.att_sha256 = NoDocument], "no_pin"),
     Renamed([CompactReceipt EXCEPT !.att_sha256 = Document(2, "k2")], "alien_pin"),
     Renamed([BodyReceipt EXCEPT !.of = "other"], "other_domain"),
     Renamed([BodyReceipt EXCEPT !.events = 1], "counted_body")}
    \cup {Renamed([BodyReceipt EXCEPT !.faults = {fault}], fault) : fault \in Faults}

Asked ==
    [issuer : {Issuer("apex", "upper_case")}, request : {Absent, "q1"},
     body : {Absent, "b"}, stream : {NoStream, SomeStream},
     nonce : {Absent, "n1"}, max_age : {None, 10}, now : {20},
     attestation : {NoDocument, Document(1, "k1"), Document(2, "k2")},
     require_attestation : BOOLEAN, require_bindings : BOOLEAN,
     reachable : {TRUE}]

MCOwnOptions ==
    Asked \cup
    {[Defaults EXCEPT !.body = "b", !.issuer.spelling = "path"],
     [Defaults EXCEPT !.body = "b", !.reachable = FALSE],
     [Defaults EXCEPT !.body = "b", !.request = "q2"],
     [Defaults EXCEPT !.body = "b", !.nonce = "n2"],
     [Defaults EXCEPT !.body = "a"],
     [Defaults EXCEPT !.body = "b", !.max_age = 9],
     [Defaults EXCEPT !.stream = [SomeStream EXCEPT !.partial = TRUE]]}
=============================================================================
