------------------------------ MODULE Requests ------------------------------
(* The client (client.rs) and what its calls put on the wire: the endpoint *)
(* methods, L4's header assembly (headers.rs), the transport entry points  *)
(* and the credential-free ones (transport/mod.rs).                        *)
(*                                                                         *)
(* The engine's decisions are those of Engine; here it sends a call again  *)
(* whenever the call may be replayed, on the same or the next candidate.   *)
(* An optional value is a set of at most one.  A layer of headers is a set *)
(* of [name, value], the name in lower case: every comparison of the code  *)
(* ignores case; a header map is a set of name and value pairs.            *)
EXTENDS Routes, FiniteSets

CONSTANTS
    Configurations, \* builders: [api_key, workspace_id, headers, base,
                    \*   control, regional_failover, telemetry, env,
                    \*   do_not_track, injected]; injected is none or the
                    \*   [defaults, jar] of a caller's HTTP client
    CallOptions,    \* [api_key, workspace_id, idempotency_key, headers]
    Uuids,          \* the keys Uuid::new_v4 would yield, one after the other
    MaxCalls,       \* bound: calls of the client
    MaxSends        \* bound: max_retries + 1

(* The options of a call, each of them given or not.                       *)
ASSUME OptionsAssumption ==
    \A o \in CallOptions :
        /\ o = [api_key |-> o.api_key, workspace_id |-> o.workspace_id,
                idempotency_key |-> o.idempotency_key, headers |-> o.headers]
        /\ \A k, l \in o.idempotency_key : k = l

ASSUME RequestsAssumption ==
    /\ MaxCalls \in Nat /\ MaxSends \in Nat \ {0}
    /\ Len(Uuids) \in Nat /\ DOMAIN Uuids = 1 .. Len(Uuids) /\ Len(Uuids) >= MaxCalls

(* Random keys meet neither each other nor what a caller wrote.            *)
ASSUME UuidAssumption ==
    /\ \A i, j \in DOMAIN Uuids : Uuids[i] = Uuids[j] => i = j
    /\ \A i \in DOMAIN Uuids :
          /\ Uuids[i] # ""
          /\ \A o \in CallOptions :
                Uuids[i] \notin o.idempotency_key \cup {h.value : h \in o.headers}
          /\ \A b \in Configurations :
                /\ Uuids[i] \notin {h.value : h \in b.headers}
                /\ \A http \in b.injected : Uuids[i] \notin {d[2] : d \in http.defaults}

VARIABLES
    client, \* none or the client that was built
    calls,  \* its calls, in the order they began
    jar,    \* the cookies of the injected HTTP client
    minted  \* idempotency keys minted so far

vars == << client, calls, jar, minted >>

Empty == ""

NoOptions ==
    [api_key |-> {}, workspace_id |-> {}, idempotency_key |-> {}, headers |-> {}]

Filled(option) == option \ {Empty}

Or(option, default) == IF option # {} THEN option ELSE default

-----------------------------------------------------------------------------
(* The endpoint methods.  "given" options are the caller's; a credential-  *)
(* free method runs on credential_free_clone.                              *)
Endpoint(plane, method, mints, given, free, path) ==
    [plane |-> plane, method |-> method, mints |-> mints, given |-> given,
     free |-> free, path |-> path]

(* chat_completions, responses, responses_input_tokens, messages,          *)
(* embeddings.                                                             *)
PromptCall(path) == Endpoint("inference", "POST", TRUE, TRUE, FALSE, path)

(* models, providers, regions.                                             *)
CatalogRead(path) == Endpoint("control", "GET", FALSE, FALSE, FALSE, path)

(* auth_session, user_info: of the client's own credentials.               *)
SessionRead(path) == Endpoint("control", "GET", FALSE, FALSE, FALSE, path)

(* credits, activity, broadcast_destinations, broadcast_destination.       *)
AccountRead(path) == Endpoint("control", "GET", FALSE, TRUE, FALSE, path)

(* create_, update_, delete_ and test_broadcast_destination.               *)
DestinationWrite(method, path) ==
    Endpoint("control", method, TRUE, TRUE, FALSE, path)

(* billing_checkout, stablecoin_checkout.                                  *)
Checkout(path) == Endpoint("control", "POST", TRUE, TRUE, FALSE, path)

Logout(path) == Endpoint("control", "POST", TRUE, FALSE, FALSE, path)

(* request, with whatever the caller names; raw_sse and validated_raw_sse. *)
RawRequest(plane, method, path) ==
    Endpoint(plane, method, FALSE, TRUE, FALSE, path)

RawSse(path) == Endpoint("inference", "POST", TRUE, TRUE, FALSE, path)

ExchangeOauthKey(path) == Endpoint("control", "POST", FALSE, TRUE, TRUE, path)

(* attestation: beside a base path that ends with /v1, not under it.       *)
Attestation(base) ==
    LET atV1 == base.dir # << >> /\ Last(base.dir) = Plain("v1")
    IN  Endpoint("inference", "GET", FALSE, FALSE, TRUE,
                 Plains(IF atV1 THEN << "..", "attestation" >>
                        ELSE << "attestation" >>))

Endpoints(base) ==
    {PromptCall(Plains(<< "chat", "completions" >>)),
     CatalogRead(Plains(<< "models" >>)), SessionRead(Plains(<< "auth", "session" >>)),
     AccountRead(Plains(<< "credits" >>)),
     DestinationWrite("PATCH", Plains(<< "broadcast", "destinations", "id" >>)),
     Checkout(Plains(<< "billing", "checkout" >>)),
     Logout(Plains(<< "auth", "logout" >>)),
     RawRequest("inference", "HEAD", Plains(<< "models" >>)),
     RawRequest("inference", "POST",
                Plains(<< "internal", "gateway", "authorize" >>)),
     RawRequest("control", "POST", Plains(<< "keys" >>)),
     RawSse(Plains(<< "chat", "completions" >>)),
     ExchangeOauthKey(Plains(<< "auth", "keys" >>)), Attestation(base)}

(* trust_release and status: outside the planes and the engine.            *)
Public == Endpoint("public", "GET", FALSE, FALSE, TRUE, << >>)

-----------------------------------------------------------------------------
(* build.                                                                  *)
BuiltClient(b) ==
    {[api_key |-> b.api_key, workspace_id |-> b.workspace_id,
      headers |-> b.headers, bases |-> ApiBaseUrls(base, b.regional_failover),
      control |-> control, injected |-> b.injected,
      http |-> IF b.injected = {} THEN "owned" ELSE "injected",
      telemetry |-> ResolveTelemetryEnabled(b.telemetry, b.env, b.do_not_track,
                                            b.base, b.control)] :
        base \in ParseBaseUrl(b.base), control \in ParseBaseUrl(b.control)}

(* credential_header.                                                      *)
CredentialHeaders ==
    {"authorization", "proxy-authorization", "cookie", "cookie2", "x-api-key",
     "x-trustedrouter-workspace", "idempotency-key", "x-tr-client"}

WithoutCredentials(layer) == {h \in layer : h.name \notin CredentialHeaders}

KeepsTransport(c) ==
    [c EXCEPT !.api_key = {}, !.workspace_id = {}, !.telemetry = FALSE,
              !.headers = WithoutCredentials(c.headers)]

(* credential_free_clone.                                                  *)
CredentialFreeClone(c) ==
    [c EXCEPT !.api_key = {}, !.workspace_id = {}, !.telemetry = FALSE,
              !.headers = WithoutCredentials(c.headers), !.http = "owned"]

(* credential_free_plane_bytes.                                            *)
CredentialFreeOptions(o) ==
    [o EXCEPT !.api_key = {Empty}, !.workspace_id = {Empty},
              !.headers = WithoutCredentials(o.headers)]

MintsForTheClient(o, serial) ==
    IF o.idempotency_key # {} THEN o ELSE [o EXCEPT !.idempotency_key = {Uuids[1]}]

(* ensure_idempotency_key: a fresh key; an empty one is the caller's.      *)
EnsureIdempotencyKey(o, serial) ==
    IF o.idempotency_key # {} THEN o
    ELSE [o EXCEPT !.idempotency_key = {Uuids[serial]}]

-----------------------------------------------------------------------------
Names(map) == {e[1] : e \in map}

ValuesOf(map, name) == {e[2] : e \in {f \in map : f[1] = name}}

Without(map, name) == {e \in map : e[1] # name}

Pairs(name, values) == {<< name, v >> : v \in values}

(* The header layers do not parse.                                         *)
Unparsable(layer) ==
    \E h \in layer : h.name # "x-tr-client" /\ h.value = "unparsable"

(* The parsed headers of a layer, over those of the layer below.           *)
Over(map, layer) ==
    LET parsed == {<< h.name, h.value >> : h \in {g \in layer : g.name # "x-tr-client"}}
    IN  {e \in map : e[1] \notin Names(parsed)} \cup parsed

(* A credential: the call's or else the client's; an empty one suppresses. *)
Credential(map, name, option, default) ==
    LET chosen == Or(option, default)
    IN  (IF chosen # {} THEN Without(map, name) ELSE map)
        \cup Pairs(name, Filled(chosen))

(* enforce_reserved_telemetry_header.                                      *)
EnforceReservedTelemetryHeader(map, value) ==
    Without(map, "x-tr-client") \cup Pairs("x-tr-client", value)

(* request_headers; value is the recorder's.                               *)
RequestHeaders(c, o, value) ==
    LET layered == Over(Over({}, c.headers), o.headers)
        traced == EnforceReservedTelemetryHeader(layered, value)
        keyed == Credential(traced, "authorization", o.api_key, c.api_key)
        placed == Credential(keyed, "x-trustedrouter-workspace",
                             o.workspace_id, c.workspace_id)
        key == Filled(o.idempotency_key)
    IN  IF key = {} THEN placed
        ELSE Without(placed, "idempotency-key") \cup Pairs("idempotency-key", key)

(* What reqwest does with a request that left the SDK (external): the      *)
(* client's default headers and its cookies fill vacant slots.             *)
OnTheWire(c, map) ==
    IF c.http = "owned" THEN map
    ELSE LET defaults == UNION {i.defaults : i \in c.injected}
             full == map \cup {d \in defaults : d[1] \notin Names(map)}
         IN  full \cup (IF "cookie" \in Names(full) THEN {} ELSE Pairs("cookie", jar))

-----------------------------------------------------------------------------
Bases(c, e) == IF e.plane = "inference" THEN c.bases ELSE << c.control >>

Candidates(c, e) == PlaneUrls(Bases(c, e), e.path)

TracesCustomHosts(c, e, index) ==
    IF /\ c.telemetry /\ e.plane = "inference"
       /\ TrackedInferencePath(Candidates(c, e)[1].path)
    THEN {"sdk"} ELSE {}

(* request_recorder and header_value: whether an attempt is traced.        *)
RecorderValue(c, e, index) ==
    IF /\ c.telemetry /\ e.plane = "inference"
       /\ TrackedInferencePath(Candidates(c, e)[1].path)
       /\ HostEnum(Candidates(c, e)[index].origin) # "custom"
    THEN {"sdk"} ELSE {}

(* request_replay_safe.                                                    *)
ReplaySafe(call) ==
    \/ call.endpoint.method \in {"GET", "HEAD", "OPTIONS", "TRACE"}
    \/ Filled(call.options.idempotency_key) # {}

Only(set) == CHOOSE x \in set : TRUE

-----------------------------------------------------------------------------
Init == client = {} /\ calls = << >> /\ jar = {} /\ minted = 0

Build(b) ==
    /\ client = {}
    /\ client' = BuiltClient(b)
    /\ UNCHANGED << calls, jar, minted >>

NewCall(c, e, asked, o) ==
    [endpoint |-> e, client |-> c, asked |-> asked, options |-> o,
     phase |-> "ready", sends |-> 0, index |-> 1, first |-> {}, last |-> {}]

(* A call of an endpoint method begins.                                    *)
Begin(e, o) ==
    /\ client # {} /\ Len(calls) < MaxCalls
    /\ LET c == Only(client)
           given == IF e.given THEN o ELSE NoOptions
           keyed == IF e.mints THEN EnsureIdempotencyKey(given, minted + 1) ELSE given
           mints == e.mints /\ given.idempotency_key = {}
       IN  /\ calls' = Append(calls,
                 IF e.free THEN NewCall(CredentialFreeClone(c), e, given,
                                        CredentialFreeOptions(keyed))
                 ELSE NewCall(c, e, given, keyed))
           /\ minted' = IF mints THEN minted + 1 ELSE minted
    /\ UNCHANGED << client, jar >>

(* resource_path refuses an empty ID and one with a '/', a '?' or a '#';   *)
(* exchange_oauth_key an empty code.                                       *)
Refuse(e, o) ==
    /\ client # {} /\ Len(calls) < MaxCalls
    /\ e.plane = "control" /\ (Len(e.path) = 3 \/ e.free)
    /\ calls' = Append(calls, [NewCall(Only(client), e, o, o) EXCEPT !.phase = "failed"])
    /\ UNCHANGED << client, jar, minted >>

(* send_once.                                                              *)
Send(i) ==
    LET call == calls[i]
        value == RecorderValue(call.client, call.endpoint, call.index)
        wire == OnTheWire(call.client, EnforceReservedTelemetryHeader(
                    RequestHeaders(call.client, call.options, value), value))
    IN  /\ call.phase = "ready"
        /\ calls' = [calls EXCEPT ![i] =
              IF Unparsable(call.client.headers) \/ Unparsable(call.options.headers)
              THEN [call EXCEPT !.phase = "failed"]
              ELSE [call EXCEPT !.phase = "waiting", !.sends = @ + 1,
                        !.first = IF call.sends = 0 THEN wire ELSE @,
                        !.last = wire]]
        /\ UNCHANGED << client, jar, minted >>

(* credential_free_json: one GET of an https or loopback URL.              *)
FetchPublic(acceptable) ==
    /\ client # {} /\ Len(calls) < MaxCalls
    /\ calls' = Append(calls,
          [NewCall(CredentialFreeClone(Only(client)), Public, NoOptions, NoOptions)
              EXCEPT !.phase = IF acceptable THEN "waiting" ELSE "failed",
                     !.sends = IF acceptable THEN 1 ELSE 0])
    /\ UNCHANGED << client, jar, minted >>

Keep(call, cookies) ==
    LET keeps == call.client.http = "injected"
                 /\ \E h \in call.client.injected : h.jar
    IN  jar' = IF keeps THEN jar \cup cookies ELSE jar

(* The call ends, and the server may have set a cookie.                    *)
Answer(i, cookies) ==
    /\ calls[i].phase = "waiting"
    /\ calls' = [calls EXCEPT ![i].phase = "done"]
    /\ Keep(calls[i], cookies)
    /\ UNCHANGED << client, minted >>

(* The attempt failed, or was answered with a failure, and the engine      *)
(* sends again, here or at the next candidate.                             *)
Again(i, cookies, moves) ==
    LET call == calls[i]
    IN  /\ call.phase = "waiting" /\ call.sends < MaxSends
        /\ call.endpoint.plane # "public" /\ ReplaySafe(call)
        /\ moves => call.index < Len(Candidates(call.client, call.endpoint))
        /\ calls' = [calls EXCEPT ![i].phase = "ready",
                                  ![i].index = IF moves THEN @ + 1 ELSE @]
        /\ Keep(call, cookies)
        /\ UNCHANGED << client, minted >>

Next ==
    \/ \E b \in Configurations : Build(b)
    \/ /\ client # {}
       /\ \E e \in Endpoints(Only(client).bases[1]), o \in CallOptions :
             Begin(e, o) \/ Refuse(e, o)
    \/ \E acceptable \in BOOLEAN : FetchPublic(acceptable)
    \/ \E i \in DOMAIN calls :
          \/ Send(i)
          \/ \E cookies \in {{}, {"session"}} :
                \/ Answer(i, cookies)
                \/ \E moves \in BOOLEAN : Again(i, cookies, moves)

Spec == Init /\ [][Next]_vars

-----------------------------------------------------------------------------
(* A credential-free request carries no credential: nothing of the client, *)
(* of the call's headers, of an injected client's defaults or of a cookie  *)
(* that an earlier call was given, on any attempt; only a key the caller   *)
(* named as an option stays (credential_free_clone, credential_header,     *)
(* credential_free_json).                                                  *)
CredentialFreeCallsCarryNone ==
    \A i \in DOMAIN calls : calls[i].endpoint.free =>
        /\ Names(calls[i].last) \cap CredentialHeaders \subseteq {"idempotency-key"}
        /\ ValuesOf(calls[i].last, "idempotency-key")
              = IF calls[i].sends = 0 THEN {}
                ELSE Filled(calls[i].asked.idempotency_key)

Keys(call) == ValuesOf(call.last, "idempotency-key")

(* The keys the caller wrote: as an option, in a header, or among the      *)
(* defaults of the HTTP client it injected.                                *)
Supplied(call) ==
    call.asked.idempotency_key
    \cup {h.value : h \in {g \in call.asked.headers \cup call.client.headers :
                              g.name = "idempotency-key"}}
    \cup UNION {ValuesOf(http.defaults, "idempotency-key") : http \in call.client.injected}

(* An idempotency key names one logical call.  All attempts of a call, on  *)
(* every candidate, carry the same key and the same credentials; a call    *)
(* of a method that mints has a key unless the caller suppressed it (the   *)
(* raw request and the exchange of an OAuth code mint none); and two calls *)
(* share a key only if the caller gave it to both (ensure_idempotency_key: *)
(* "the caller is never double-charged").                                  *)
OneKeyPerCall ==
    /\ \A i \in DOMAIN calls : calls[i].sends > 0 =>
          /\ \A name \in {"authorization", "x-trustedrouter-workspace",
                          "idempotency-key"} :
                ValuesOf(calls[i].first, name) = ValuesOf(calls[i].last, name)
          /\ calls[i].endpoint.mints /\ Empty \notin calls[i].asked.idempotency_key
                => Cardinality(Keys(calls[i])) = 1
    /\ \A i, j \in DOMAIN calls : i # j =>
          Keys(calls[i]) \cap Keys(calls[j]) \subseteq
              Supplied(calls[i]) \cap Supplied(calls[j])

(* x-tr-client is the SDK's.  A value on the wire is the recorder's, and   *)
(* then the call is an inference call to a known host of a client that has *)
(* telemetry on, not on an excluded route; or it is a default of the HTTP  *)
(* client the caller injected, where the SDK left the slot vacant.         *)
(* One that the client or the call was given as a header never rides       *)
(* (request_headers, enforce_reserved_telemetry_header).                   *)
TelemetryHeaderIsTheSdks ==
    \A i \in DOMAIN calls : \A value \in ValuesOf(calls[i].last, "x-tr-client") :
        IF value = "sdk"
        THEN /\ calls[i].client.telemetry /\ calls[i].endpoint.plane = "inference"
             /\ \A name \in ExcludedRoutes :
                   ~ Within(name, SemanticRoute(calls[i].endpoint.path))
             /\ HostEnum(calls[i].client.bases[1].origin) # "custom"
        ELSE \E h \in calls[i].client.injected : << "x-tr-client", value >> \in h.defaults
=============================================================================
