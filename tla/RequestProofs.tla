--------------------------- MODULE RequestProofs ----------------------------
(***************************************************************************)
(* Theorems about what a client's calls put on the wire, for any client,   *)
(* any options of its calls and any number of calls and attempts.          *)
(***************************************************************************)
EXTENDS Requests, FiniteSetTheorems, TLAPS

(* What a header map holds under a name after each of the operations that  *)
(* assemble it: two maps together,                                         *)
LEMMA UnionValues ==
    ASSUME NEW map, NEW other, NEW n
    PROVE  ValuesOf(map \cup other, n) = ValuesOf(map, n) \cup ValuesOf(other, n)
  BY DEF ValuesOf

(* a map without one of its names,                                         *)
LEMMA WithoutValues ==
    ASSUME NEW map, NEW name, NEW n
    PROVE  ValuesOf(Without(map, name), n) = IF n = name THEN {} ELSE ValuesOf(map, n)
  BY DEF ValuesOf, Without

(* and some values under one name.                                         *)
LEMMA PairValues ==
    ASSUME NEW name, NEW values, NEW n
    PROVE  ValuesOf(Pairs(name, values), n) = IF n = name THEN values ELSE {}
  <1>1. \A v : << name, v >>[1] = name /\ << name, v >>[2] = v
    OBVIOUS
  <1>2. ASSUME NEW v \in values, n = name PROVE v \in ValuesOf(Pairs(name, values), n)
    <2>1. << name, v >> \in Pairs(name, values)
      BY DEF Pairs
    <2> QED BY <1>1, <1>2, <2>1 DEF ValuesOf
  <1>3. ASSUME NEW v \in ValuesOf(Pairs(name, values), n) PROVE v \in values /\ n = name
    BY <1>1 DEF ValuesOf, Pairs
  <1> QED BY <1>2, <1>3

(* A name is in a map if there is a value under it.                        *)
LEMMA NameValues ==
    ASSUME NEW map, NEW n
    PROVE  n \in Names(map) <=> ValuesOf(map, n) # {}
  BY DEF ValuesOf, Names

(* credential: what is chosen replaces what the headers said, an empty     *)
(* choice by nothing; without a choice the headers stand.                  *)
LEMMA CredentialValues ==
    ASSUME NEW map, NEW name, NEW option, NEW default, NEW n
    PROVE  ValuesOf(Credential(map, name, option, default), n)
              = IF n = name /\ Or(option, default) # {}
                THEN Filled(Or(option, default)) ELSE ValuesOf(map, n)
  <1> DEFINE chosen == Or(option, default)
             kept == IF chosen # {} THEN Without(map, name) ELSE map
  <1>1. Credential(map, name, option, default) = kept \cup Pairs(name, Filled(chosen))
    BY DEF Credential
  <1>2. chosen = {} => Filled(chosen) = {}
    BY DEF Filled
  <1>3. ValuesOf(kept, n) = IF chosen # {} /\ n = name THEN {} ELSE ValuesOf(map, n)
    <2>1. CASE chosen # {}
      <3>1. kept = Without(map, name)
        BY <2>1
      <3> HIDE DEF kept, chosen
      <3> QED BY <2>1, <3>1, WithoutValues
    <2>2. CASE chosen = {}
      BY <2>2
    <2> QED BY <2>1, <2>2
  <1>4. ValuesOf(Pairs(name, Filled(chosen)), n) = IF n = name THEN Filled(chosen) ELSE {}
    BY PairValues
  <1> HIDE DEF chosen, kept
  <1>5. ValuesOf(kept \cup Pairs(name, Filled(chosen)), n)
            = ValuesOf(kept, n) \cup ValuesOf(Pairs(name, Filled(chosen)), n)
    BY UnionValues
  <1> QED BY <1>1, <1>2, <1>3, <1>4, <1>5 DEF chosen

Layered(c, o) == Over(Over({}, c.headers), o.headers)

(* The headers of a request, by name.                                      *)
SdkValues(c, o, value, n) ==
    IF n = "x-tr-client" THEN value
    ELSE IF n = "authorization" /\ Or(o.api_key, c.api_key) # {}
    THEN Filled(Or(o.api_key, c.api_key))
    ELSE IF n = "x-trustedrouter-workspace" /\ Or(o.workspace_id, c.workspace_id) # {}
    THEN Filled(Or(o.workspace_id, c.workspace_id))
    ELSE IF n = "idempotency-key" /\ Filled(o.idempotency_key) # {}
    THEN Filled(o.idempotency_key)
    ELSE ValuesOf(Layered(c, o), n)

(* The reserved header is the recorder's, whatever the map held.           *)
LEMMA EnforcedValues ==
    ASSUME NEW map, NEW value, NEW n
    PROVE  ValuesOf(EnforceReservedTelemetryHeader(map, value), n)
              = IF n = "x-tr-client" THEN value ELSE ValuesOf(map, n)
  <1>1. ValuesOf(Without(map, "x-tr-client"), n)
            = IF n = "x-tr-client" THEN {} ELSE ValuesOf(map, n)
    BY WithoutValues
  <1>2. ValuesOf(Pairs("x-tr-client", value), n) = IF n = "x-tr-client" THEN value ELSE {}
    BY PairValues
  <1>3. ValuesOf(Without(map, "x-tr-client") \cup Pairs("x-tr-client", value), n)
            = ValuesOf(Without(map, "x-tr-client"), n)
              \cup ValuesOf(Pairs("x-tr-client", value), n)
    BY UnionValues
  <1> QED BY <1>1, <1>2, <1>3 DEF EnforceReservedTelemetryHeader

(* What request_headers and send_once assemble.                            *)
LEMMA RequestValues ==
    ASSUME NEW c, NEW o, NEW value, NEW n
    PROVE  ValuesOf(EnforceReservedTelemetryHeader(RequestHeaders(c, o, value), value), n)
              = SdkValues(c, o, value, n)
  <1> DEFINE traced == EnforceReservedTelemetryHeader(Layered(c, o), value)
             keyed == Credential(traced, "authorization", o.api_key, c.api_key)
             placed == Credential(keyed, "x-trustedrouter-workspace",
                                  o.workspace_id, c.workspace_id)
             key == Filled(o.idempotency_key)
             full == RequestHeaders(c, o, value)
  <1>1. full = IF key = {} THEN placed
               ELSE Without(placed, "idempotency-key") \cup Pairs("idempotency-key", key)
    BY DEF RequestHeaders, Layered
  <1>2. ValuesOf(traced, n) = IF n = "x-tr-client" THEN value ELSE ValuesOf(Layered(c, o), n)
    BY EnforcedValues
  <1>3. ValuesOf(keyed, n) = IF n = "authorization" /\ Or(o.api_key, c.api_key) # {}
                             THEN Filled(Or(o.api_key, c.api_key)) ELSE ValuesOf(traced, n)
    BY CredentialValues
  <1>4. ValuesOf(placed, n)
            = IF n = "x-trustedrouter-workspace" /\ Or(o.workspace_id, c.workspace_id) # {}
              THEN Filled(Or(o.workspace_id, c.workspace_id)) ELSE ValuesOf(keyed, n)
    BY CredentialValues
  <1> HIDE DEF traced, keyed, placed, key, full
  <1>5. key # {} => ValuesOf(full, n)
            = IF n = "idempotency-key" THEN key ELSE ValuesOf(placed, n)
    <2>1. ValuesOf(Without(placed, "idempotency-key"), n)
            = IF n = "idempotency-key" THEN {} ELSE ValuesOf(placed, n)
      BY WithoutValues
    <2>2. ValuesOf(Pairs("idempotency-key", key), n)
            = IF n = "idempotency-key" THEN key ELSE {}
      BY PairValues
    <2>3. ValuesOf(Without(placed, "idempotency-key") \cup Pairs("idempotency-key", key), n)
            = ValuesOf(Without(placed, "idempotency-key"), n)
              \cup ValuesOf(Pairs("idempotency-key", key), n)
      BY UnionValues
    <2> QED BY <1>1, <2>1, <2>2, <2>3
  <1>6. key = {} => ValuesOf(full, n) = ValuesOf(placed, n)
    BY <1>1
  <1>7. ValuesOf(EnforceReservedTelemetryHeader(full, value), n)
            = IF n = "x-tr-client" THEN value ELSE ValuesOf(full, n)
    BY EnforcedValues
  <1>8. ValuesOf(EnforceReservedTelemetryHeader(full, value), n) = SdkValues(c, o, value, n)
    BY <1>2, <1>3, <1>4, <1>5, <1>6, <1>7 DEF SdkValues, key
  <1> QED BY <1>8 DEF full
(* What leaves a client: its HTTP client, if it was injected, fills the    *)
(* slots that the SDK left vacant.                                         *)
Wire(c, o, value) ==
    OnTheWire(c, EnforceReservedTelemetryHeader(RequestHeaders(c, o, value), value))

Carries(c, o, n) ==
    IF c.http = "owned" \/ SdkValues(c, o, {}, n) # {} THEN SdkValues(c, o, {}, n)
    ELSE ValuesOf(UNION {i.defaults : i \in c.injected}, n)

(* But for the telemetry header and the cookies, an attempt carries what   *)
(* the client and the call's options say, and nothing of the moment.       *)
LEMMA WireValues ==
    ASSUME NEW c, NEW o, NEW value, NEW n, n # "cookie", n # "x-tr-client"
    PROVE  ValuesOf(Wire(c, o, value), n) = Carries(c, o, n)
  <1> DEFINE map == EnforceReservedTelemetryHeader(RequestHeaders(c, o, value), value)
             defaults == UNION {i.defaults : i \in c.injected}
             vacant == {d \in defaults : d[1] \notin Names(map)}
             cookies == IF "cookie" \in Names(map \cup vacant) THEN {}
                        ELSE Pairs("cookie", jar)
  <1>1. Wire(c, o, value) = IF c.http = "owned" THEN map ELSE (map \cup vacant) \cup cookies
    BY DEF Wire, OnTheWire
  <1>2. ValuesOf(map, n) = SdkValues(c, o, value, n)
    BY RequestValues
  <1>3. SdkValues(c, o, value, n) = SdkValues(c, o, {}, n)
    BY DEF SdkValues
  <1>4. ValuesOf(cookies, n) = {}
    <2>1. ValuesOf({}, n) = {}
      BY DEF ValuesOf
    <2>2. ValuesOf(Pairs("cookie", jar), n) = {}
      BY PairValues
    <2> HIDE DEF map, vacant
    <2> QED BY <2>1, <2>2
  <1> HIDE DEF map, cookies, defaults
  <1>5. n \in Names(map) <=> ValuesOf(map, n) # {}
    BY NameValues
  <1>6. ValuesOf(vacant, n) = IF n \in Names(map) THEN {} ELSE ValuesOf(defaults, n)
    BY DEF ValuesOf
  <1> HIDE DEF vacant
  <1>7. ValuesOf((map \cup vacant) \cup cookies, n)
            = (ValuesOf(map, n) \cup ValuesOf(vacant, n)) \cup ValuesOf(cookies, n)
    <2> DEFINE full == map \cup vacant
    <2>1. ValuesOf(full, n) = ValuesOf(map, n) \cup ValuesOf(vacant, n)
      BY UnionValues
    <2> HIDE DEF full
    <2>2. ValuesOf(full \cup cookies, n) = ValuesOf(full, n) \cup ValuesOf(cookies, n)
      BY UnionValues
    <2> QED BY <2>1, <2>2 DEF full
  <1>8. Carries(c, o, n) = IF c.http = "owned" \/ SdkValues(c, o, {}, n) # {}
                           THEN SdkValues(c, o, {}, n) ELSE ValuesOf(defaults, n)
    BY DEF Carries, defaults
  <1>9. CASE c.http = "owned"
    BY <1>1, <1>2, <1>3, <1>8, <1>9
  <1>10. CASE c.http # "owned"
    BY <1>1, <1>2, <1>3, <1>4, <1>5, <1>6, <1>7, <1>8, <1>10, ZenonT(30)
  <1> QED BY <1>9, <1>10

(* A client and options of which credential_free_clone and                 *)
(* credential_free_plane_bytes left no credential.                         *)
Bare(c, o) ==
    /\ c.api_key = {} /\ c.workspace_id = {} /\ c.telemetry = FALSE /\ c.http = "owned"
    /\ o.api_key = {Empty} /\ o.workspace_id = {Empty}
    /\ \A h \in c.headers \cup o.headers : h.name \notin CredentialHeaders

(* The headers a map keeps from two layers are named in one of them.       *)
LEMMA LayeredValues ==
    ASSUME NEW c, NEW o, NEW n, NEW v \in ValuesOf(Layered(c, o), n)
    PROVE  \E h \in c.headers \cup o.headers : h.name = n /\ h.value = v
  <1>1. \A map, layer, w : w \in ValuesOf(Over(map, layer), n) =>
            w \in ValuesOf(map, n) \/ \E h \in layer : h.name = n /\ h.value = w
    <2> TAKE map, layer, w
    <2> DEFINE parsed == {<< h.name, h.value >> :
                             h \in {g \in layer : g.name # "x-tr-client"}}
    <2> HAVE w \in ValuesOf(Over(map, layer), n)
    <2>1. PICK e \in Over(map, layer) : e[1] = n /\ e[2] = w
      BY DEF ValuesOf
    <2>2. e \in map \/ e \in parsed
      BY <2>1 DEF Over
    <2>3. CASE e \in map
      BY <2>1, <2>3 DEF ValuesOf
    <2>4. CASE e \in parsed
      <3>1. PICK h \in layer : e = << h.name, h.value >>
        BY <2>4
      <3>2. h.name = n /\ h.value = w
        BY <2>1, <3>1
      <3> QED BY <3>2
    <2> QED BY <2>2, <2>3, <2>4
  <1>2. v \in ValuesOf(Over({}, c.headers), n) \/ \E h \in o.headers : h.name = n /\ h.value = v
    BY <1>1 DEF Layered
  <1>3. ValuesOf({}, n) = {}
    BY DEF ValuesOf
  <1> QED BY <1>1, <1>2, <1>3

(* A request of them has no credential but the key the caller named.       *)
LEMMA BareCarriesNone ==
    ASSUME NEW c, NEW o, Bare(c, o)
    PROVE  /\ Names(Wire(c, o, {})) \cap CredentialHeaders \subseteq {"idempotency-key"}
           /\ ValuesOf(Wire(c, o, {}), "idempotency-key") = Filled(o.idempotency_key)
  <1> DEFINE map == EnforceReservedTelemetryHeader(RequestHeaders(c, o, {}), {})
  <1>1. Wire(c, o, {}) = map
    BY DEF Wire, OnTheWire, Bare
  <1>2. \A n \in CredentialHeaders : ValuesOf(Layered(c, o), n) = {}
    BY LayeredValues DEF Bare
  <1>3. Or(o.api_key, c.api_key) = {Empty} /\ Or(o.workspace_id, c.workspace_id) = {Empty}
    BY DEF Bare, Or
  <1>4. Filled({Empty}) = {}
    BY DEF Filled
  <1>5. \A n \in CredentialHeaders : n # "idempotency-key" => SdkValues(c, o, {}, n) = {}
    BY <1>2, <1>3, <1>4 DEF SdkValues
  <1>6. "idempotency-key" \in CredentialHeaders
    BY DEF CredentialHeaders
  <1>7. SdkValues(c, o, {}, "idempotency-key") = Filled(o.idempotency_key)
    BY <1>2, <1>6 DEF SdkValues
  <1>8. \A n : ValuesOf(map, n) = SdkValues(c, o, {}, n)
    BY RequestValues
  <1> HIDE DEF map
  <1>9. \A n : n \in Names(map) <=> ValuesOf(map, n) # {}
    BY NameValues
  <1> QED BY <1>1, <1>5, <1>7, <1>8, <1>9
-----------------------------------------------------------------------------
IsSequence(s) == \E S : s \in Seq(S)

(* Appending and overwriting, for sequences of whatever.                   *)
LEMMA SequenceSteps ==
    ASSUME NEW s, IsSequence(s), NEW x
    PROVE  /\ Len(s) \in Nat /\ DOMAIN s = 1 .. Len(s)
           /\ IsSequence(Append(s, x)) /\ Len(Append(s, x)) = Len(s) + 1
           /\ Append(s, x)[Len(s) + 1] = x
           /\ \A i \in 1 .. Len(s) : Append(s, x)[i] = s[i]
           /\ \A i \in 1 .. Len(s) :
                 /\ IsSequence([s EXCEPT ![i] = x]) /\ Len([s EXCEPT ![i] = x]) = Len(s)
                 /\ [s EXCEPT ![i] = x][i] = x
                 /\ \A j \in 1 .. Len(s) : j # i => [s EXCEPT ![i] = x][j] = s[j]
  <1>1. PICK S : s \in Seq(S)
    BY DEF IsSequence
  <1> DEFINE T == S \cup {x}
  <1>2. s \in Seq(T) /\ x \in T
    BY <1>1
  <1> HIDE DEF T
  <1>3. Append(s, x) \in Seq(T)
    BY <1>2
  <1>4. \A i \in 1 .. Len(s) : [s EXCEPT ![i] = x] \in Seq(T)
    BY <1>2
  <1>5. \A i \in 1 .. Len(s) : Len([s EXCEPT ![i] = x]) = Len(s)
    BY <1>2
  <1> QED BY <1>2, <1>3, <1>4, <1>5 DEF IsSequence

(* What is true of one call, with k keys minted.                           *)
Shape(call) ==
    call = [endpoint |-> call.endpoint, client |-> call.client, asked |-> call.asked,
            options |-> call.options, phase |-> call.phase, sends |-> call.sends,
            index |-> call.index, first |-> call.first, last |-> call.last]

Fresh(call) == call.sends = 0 => call.first = {} /\ call.last = {}

IsPublic(call) == call.endpoint.plane = "public"

Unkeyed(call) ==
    IsPublic(call) =>
        /\ call.phase # "ready" /\ ~ call.endpoint.mints
        /\ call.first = {} /\ call.last = {} /\ call.asked.idempotency_key = {}

Stripped(call) ==
    call.endpoint.free /\ ~ IsPublic(call) /\ call.phase # "failed" =>
        /\ Bare(call.client, call.options)
        /\ call.options.idempotency_key = call.asked.idempotency_key

CarriesNone(call) ==
    call.endpoint.free =>
        /\ Names(call.last) \cap CredentialHeaders \subseteq {"idempotency-key"}
        /\ ValuesOf(call.last, "idempotency-key")
              = IF call.sends = 0 THEN {} ELSE Filled(call.asked.idempotency_key)

SteadyNames == {"authorization", "x-trustedrouter-workspace", "idempotency-key"}

Steady(call) ==
    call.sends > 0 /\ ~ IsPublic(call) =>
        \A n \in SteadyNames :
            /\ ValuesOf(call.first, n) = Carries(call.client, call.options, n)
            /\ ValuesOf(call.last, n) = Carries(call.client, call.options, n)

(* Where the key of a call is from.                                        *)
Keyed(call, k) ==
    /\ call.asked \in CallOptions \cup {NoOptions}
    /\ call.options.headers \subseteq call.asked.headers
    /\ \/ call.options.idempotency_key = call.asked.idempotency_key
       \/ /\ call.asked.idempotency_key = {}
          /\ \E n \in 1 .. k : call.options.idempotency_key = {Uuids[n]}
    /\ call.endpoint.mints /\ call.phase # "failed" => call.options.idempotency_key # {}

HasKey(call) ==
    /\ call.sends > 0 /\ call.endpoint.mints
    /\ Empty \notin call.asked.idempotency_key
    => \E key : Keys(call) = {key}

(* A client, or its credential-free clone, is made of a builder.           *)
Made(c) ==
    \E b \in Configurations : c.headers \subseteq b.headers /\ c.injected = b.injected

CallOK(call, k) ==
    /\ Shape(call) /\ call.sends \in Nat
    /\ Fresh(call) /\ Unkeyed(call) /\ Stripped(call) /\ CarriesNone(call)
    /\ Steady(call) /\ Keyed(call, k) /\ HasKey(call) /\ Made(call.client)

(* No two calls have one minted key.                                       *)
KeysApart(cs) ==
    \A i, j \in DOMAIN cs : i # j =>
        \A n \in DOMAIN Uuids :
            ~ (/\ Uuids[n] \in cs[i].options.idempotency_key
               /\ Uuids[n] \in cs[j].options.idempotency_key)

ClientOK(c) ==
    /\ c = [api_key |-> c.api_key, workspace_id |-> c.workspace_id, headers |-> c.headers,
            bases |-> c.bases, control |-> c.control, injected |-> c.injected,
            http |-> c.http, telemetry |-> c.telemetry]
    /\ Made(c)

(* The inductive invariant.                                                *)
WireInv ==
    /\ IsSequence(calls) /\ minted \in 0 .. Len(calls) /\ Len(calls) <= MaxCalls
    /\ \A c \in client : ClientOK(c)
    /\ \A i \in DOMAIN calls : CallOK(calls[i], minted)
    /\ KeysApart(calls)

(* The endpoint methods that need no credential mint no key.               *)
LEMMA EndpointFacts ==
    ASSUME NEW base, NEW e \in Endpoints(base)
    PROVE  /\ e.free => ~ e.mints
           /\ e.plane # "public" /\ e.free \in BOOLEAN
  <1> DEFINE OK(x) == (x.free => ~ x.mints) /\ x.plane # "public" /\ x.free \in BOOLEAN
  <1>1. \A plane, method, mints, given, path :
            plane # "public" => OK(Endpoint(plane, method, mints, given, FALSE, path))
    BY DEF Endpoint
  <1>2. \A plane, method, given, path :
            plane # "public" => OK(Endpoint(plane, method, FALSE, given, TRUE, path))
    BY DEF Endpoint
  <1>3. "inference" # "public" /\ "control" # "public"
    OBVIOUS
  <1> HIDE DEF OK
  <1>4. \A path : OK(PromptCall(path)) /\ OK(CatalogRead(path)) /\ OK(SessionRead(path))
                  /\ OK(AccountRead(path))
    BY <1>1, <1>3, ZenonT(30) DEF PromptCall, CatalogRead, SessionRead, AccountRead
  <1>5. \A method, path : OK(DestinationWrite(method, path))
                          /\ OK(RawRequest("inference", method, path))
                          /\ OK(RawRequest("control", method, path))
    BY <1>1, <1>3, ZenonT(30) DEF DestinationWrite, RawRequest
  <1>6. \A path : OK(Checkout(path)) /\ OK(Logout(path)) /\ OK(RawSse(path))
                  /\ OK(ExchangeOauthKey(path))
    BY <1>1, <1>2, <1>3, ZenonT(30) DEF Checkout, Logout, RawSse, ExchangeOauthKey
  <1>7. OK(Attestation(base))
    BY <1>2, <1>3, ZenonT(30) DEF Attestation
  <1>8. OK(e)
    BY <1>4, <1>5, <1>6, <1>7 DEF Endpoints
  <1> QED BY <1>8 DEF OK

(* Nothing the caller wrote is a minted key.                               *)
LEMMA MintedIsFresh ==
    ASSUME NEW n \in DOMAIN Uuids, NEW asked \in CallOptions \cup {NoOptions}
    PROVE  /\ Uuids[n] # Empty
           /\ Uuids[n] \notin asked.idempotency_key
           /\ \A h \in asked.headers : h.value # Uuids[n]
  <1>1. CASE asked \in CallOptions
    BY <1>1, UuidAssumption, ZenonT(30) DEF UuidAssumption, Empty
  <1>2. CASE asked = NoOptions
    BY <1>2, UuidAssumption, ZenonT(30) DEF UuidAssumption, NoOptions, Empty
  <1> QED BY <1>1, <1>2

(* A call has one of the keys minted so far, or none of the minted ones.   *)
LEMMA OldKeys ==
    ASSUME NEW call, NEW k \in Nat, k <= MaxCalls, Keyed(call, k), NEW n \in DOMAIN Uuids,
           Uuids[n] \in call.options.idempotency_key
    PROVE  n \in 1 .. k
  <1>1. Uuids[n] \notin call.asked.idempotency_key
    BY MintedIsFresh DEF Keyed
  <1>2. PICK m \in 1 .. k : call.options.idempotency_key = {Uuids[m]}
    BY <1>1 DEF Keyed
  <1>3. m \in DOMAIN Uuids /\ Uuids[m] = Uuids[n]
    BY <1>2, RequestsAssumption DEF RequestsAssumption
  <1> QED BY <1>2, <1>3, UuidAssumption, ZenonT(30) DEF UuidAssumption

(* What is true of a call stays true when another key is minted.           *)
LEMMA CallStays ==
    ASSUME NEW call, NEW k \in Nat, CallOK(call, k)
    PROVE  CallOK(call, k + 1)
  <1>1. Keyed(call, k + 1)
    BY DEF CallOK, Keyed
  <1> QED BY <1>1 DEF CallOK

(* A call begins: at most one key is minted, for it.                       *)
LEMMA Appended ==
    ASSUME WireInv, NEW call, NEW k \in {minted, minted + 1}, CallOK(call, k),
           Len(calls) < MaxCalls, calls' = Append(calls, call), minted' = k,
           client' = client,
           \A n \in DOMAIN Uuids : Uuids[n] \in call.options.idempotency_key =>
               k = minted + 1 /\ n = k
    PROVE  WireInv'
  <1> DEFINE last == Len(calls) + 1
  <1>1. /\ IsSequence(calls) /\ minted \in Nat /\ Len(calls) \in Nat
        /\ minted <= Len(calls) /\ DOMAIN calls = 1 .. Len(calls)
    BY SequenceSteps DEF WireInv
  <1>2. /\ IsSequence(calls') /\ Len(calls') = last /\ DOMAIN calls' = 1 .. last
        /\ calls'[last] = call /\ \A i \in 1 .. Len(calls) : calls'[i] = calls[i]
    BY <1>1, SequenceSteps
  <1> HIDE DEF last
  <1>3. minted' \in 0 .. Len(calls') /\ Len(calls') <= MaxCalls
    <2>1. k \in 0 .. Len(calls) + 1
      BY <1>1
    <2> QED BY <1>1, <1>2, <2>1, RequestsAssumption DEF RequestsAssumption, last
  <1>4. ASSUME NEW i \in DOMAIN calls' PROVE CallOK(calls'[i], minted')
    <2>1. CASE i = last
      BY <1>2, <2>1
    <2>2. CASE i # last
      <3>1. i \in DOMAIN calls /\ calls'[i] = calls[i]
        BY <1>1, <1>2, <2>2 DEF last
      <3>2. CallOK(calls[i], minted)
        BY <3>1 DEF WireInv
      <3> QED BY <1>1, <3>1, <3>2, CallStays
    <2> QED BY <2>1, <2>2
  <1>5. ASSUME NEW i \in DOMAIN calls, NEW n \in DOMAIN Uuids,
               Uuids[n] \in calls[i].options.idempotency_key,
               Uuids[n] \in call.options.idempotency_key
        PROVE  FALSE
    <2>0. Keyed(calls[i], minted) /\ minted <= MaxCalls
      BY <1>1, RequestsAssumption DEF WireInv, CallOK, RequestsAssumption
    <2>1. n \in 1 .. minted
      BY <1>1, <1>5, <2>0, OldKeys
    <2> QED BY <1>1, <1>5, <2>1
  <1>6. KeysApart(calls')
    <2> SUFFICES ASSUME NEW i \in 1 .. last, NEW j \in 1 .. last, i # j,
                        NEW n \in DOMAIN Uuids,
                        Uuids[n] \in calls'[i].options.idempotency_key,
                        Uuids[n] \in calls'[j].options.idempotency_key
                 PROVE  FALSE
      BY <1>2 DEF KeysApart
    <2>1. CASE i = last
      BY <1>1, <1>2, <1>5, <2>1 DEF last
    <2>2. CASE j = last
      BY <1>1, <1>2, <1>5, <2>2 DEF last
    <2>3. CASE i # last /\ j # last
      BY <1>1, <1>2, <2>3 DEF WireInv, KeysApart, last
    <2> QED BY <2>1, <2>2, <2>3
  <1>7. \A c \in client' : ClientOK(c)
    BY DEF WireInv
  <1> QED BY <1>2, <1>3, <1>4, <1>6, <1>7 DEF WireInv

(* A step of one call, which keeps its options.                            *)
LEMMA Updated ==
    ASSUME WireInv, NEW i \in DOMAIN calls, NEW call, CallOK(call, minted),
           call.options = calls[i].options,
           calls' = [calls EXCEPT ![i] = call], minted' = minted, client' = client
    PROVE  WireInv'
  <1>1. IsSequence(calls) /\ DOMAIN calls = 1 .. Len(calls)
    BY SequenceSteps DEF WireInv
  <1>2. /\ IsSequence(calls') /\ Len(calls') = Len(calls) /\ DOMAIN calls' = 1 .. Len(calls)
        /\ calls'[i] = call /\ \A j \in 1 .. Len(calls) : j # i => calls'[j] = calls[j]
    BY <1>1, SequenceSteps, ZenonT(30)
  <1>3. \A j \in DOMAIN calls' : CallOK(calls'[j], minted')
    BY <1>1, <1>2 DEF WireInv
  <1>4. \A j \in DOMAIN calls : calls'[j].options = calls[j].options
    BY <1>1, <1>2
  <1>5. KeysApart(calls')
    BY <1>1, <1>2, <1>4 DEF WireInv, KeysApart
  <1>6. \A c \in client' : ClientOK(c)
    BY DEF WireInv
  <1> QED BY <1>2, <1>3, <1>5, <1>6 DEF WireInv
(* A call that begins on a client, with the options it will use.           *)
LEMMA NewCallOK ==
    ASSUME NEW c, Made(c), NEW e, NEW asked \in CallOptions \cup {NoOptions}, NEW o,
           NEW k, e.plane # "public", o.headers \subseteq asked.headers,
           \/ o.idempotency_key = asked.idempotency_key
           \/ /\ asked.idempotency_key = {}
              /\ \E n \in 1 .. k : o.idempotency_key = {Uuids[n]},
           e.mints => o.idempotency_key # {},
           e.free => Bare(c, o) /\ o.idempotency_key = asked.idempotency_key
    PROVE  CallOK(NewCall(c, e, asked, o), k)
  <1> DEFINE call == NewCall(c, e, asked, o)
  <1>1. /\ call.endpoint = e /\ call.client = c /\ call.asked = asked /\ call.options = o
        /\ call.phase = "ready" /\ call.sends = 0 /\ call.first = {} /\ call.last = {}
    BY DEF NewCall
  <1>2. Shape(call)
    BY DEF NewCall, Shape
  <1>3. \A n : ValuesOf({}, n) = {} /\ Names({}) = {}
    BY DEF ValuesOf, Names
  <1> HIDE DEF call
  <1>4. Fresh(call) /\ Unkeyed(call) /\ Stripped(call) /\ Keyed(call, k)
    BY <1>1 DEF Fresh, Unkeyed, IsPublic, Stripped, Keyed
  <1>5. CarriesNone(call) /\ Steady(call) /\ HasKey(call)
    BY <1>1, <1>3 DEF CarriesNone, Steady, HasKey
  <1>6. CallOK(call, k)
    BY <1>1, <1>2, <1>4, <1>5 DEF CallOK
  <1> QED BY <1>6 DEF call

(* credential_free_clone and credential_free_plane_bytes leave no          *)
(* credential, and keep whose client it is.                                *)
LEMMA CloneIsBare ==
    ASSUME NEW c, ClientOK(c), NEW o \in CallOptions \cup {NoOptions}
    PROVE  /\ Bare(CredentialFreeClone(c), CredentialFreeOptions(o))
           /\ Made(CredentialFreeClone(c))
           /\ CredentialFreeOptions(o).headers \subseteq o.headers
           /\ CredentialFreeOptions(o).idempotency_key = o.idempotency_key
  <1> DEFINE d == CredentialFreeClone(c)
             p == CredentialFreeOptions(o)
  <1>1. o = [api_key |-> o.api_key, workspace_id |-> o.workspace_id,
             idempotency_key |-> o.idempotency_key, headers |-> o.headers]
    BY OptionsAssumption DEF OptionsAssumption, NoOptions
  <1>2. /\ p.api_key = {Empty} /\ p.workspace_id = {Empty}
        /\ p.headers = WithoutCredentials(o.headers)
        /\ p.idempotency_key = o.idempotency_key
    BY <1>1, ZenonT(30) DEF CredentialFreeOptions
  <1>3. /\ d.api_key = {} /\ d.workspace_id = {} /\ d.telemetry = FALSE /\ d.http = "owned"
        /\ d.headers = WithoutCredentials(c.headers) /\ d.injected = c.injected
    BY ZenonT(30) DEF CredentialFreeClone, ClientOK
  <1> HIDE DEF d, p
  <1>4. \A layer : /\ WithoutCredentials(layer) \subseteq layer
                   /\ \A h \in WithoutCredentials(layer) : h.name \notin CredentialHeaders
    BY DEF WithoutCredentials
  <1>5. Bare(d, p)
    BY <1>2, <1>3, <1>4 DEF Bare
  <1>6. Made(d)
    BY <1>3, <1>4 DEF ClientOK, Made
  <1> QED BY <1>2, <1>4, <1>5, <1>6 DEF d, p

(* ensure_idempotency_key keeps the caller's key, even an empty one, and   *)
(* the rest of the options.                                                *)
LEMMA EnsuredKey ==
    ASSUME NEW o \in CallOptions \cup {NoOptions}, NEW serial
    PROVE  /\ EnsureIdempotencyKey(o, serial).headers = o.headers
           /\ EnsureIdempotencyKey(o, serial).idempotency_key
                 = IF o.idempotency_key = {} THEN {Uuids[serial]} ELSE o.idempotency_key
  <1>1. o = [api_key |-> o.api_key, workspace_id |-> o.workspace_id,
             idempotency_key |-> o.idempotency_key, headers |-> o.headers]
    BY OptionsAssumption DEF OptionsAssumption, NoOptions
  <1> QED BY <1>1 DEF EnsureIdempotencyKey

(* Begin keeps the invariant.                                              *)
LEMMA BeginKeeps ==
    ASSUME WireInv, NEW base, NEW e \in Endpoints(base), NEW o \in CallOptions, Begin(e, o)
    PROVE  WireInv'
  <1> DEFINE c == Only(client)
             given == IF e.given THEN o ELSE NoOptions
             keyed == IF e.mints THEN EnsureIdempotencyKey(given, minted + 1) ELSE given
             mints == e.mints /\ given.idempotency_key = {}
             k == IF mints THEN minted + 1 ELSE minted
             call == IF e.free THEN NewCall(CredentialFreeClone(c), e, given,
                                            CredentialFreeOptions(keyed))
                     ELSE NewCall(c, e, given, keyed)
  <1>1. /\ client # {} /\ Len(calls) < MaxCalls
        /\ calls' = Append(calls, call) /\ minted' = k /\ client' = client
    BY ZenonT(30) DEF Begin
  <1>2. c \in client /\ ClientOK(c)
    BY <1>1 DEF Only, WireInv
  <1>3. given \in CallOptions \cup {NoOptions}
    OBVIOUS
  <1>4. minted \in Nat /\ minted <= Len(calls) /\ Len(calls) \in Nat
    BY SequenceSteps DEF WireInv
  <1>5. (e.free => ~ e.mints) /\ e.plane # "public"
    BY EndpointFacts
  <1>6. k \in {minted, minted + 1}
    OBVIOUS
  <1>7. /\ keyed.headers = given.headers
        /\ mints => keyed.idempotency_key = {Uuids[minted + 1]}
        /\ ~ mints => keyed.idempotency_key = given.idempotency_key
        /\ e.mints => keyed.idempotency_key # {}
    BY <1>3, EnsuredKey, ZenonT(30)
  <1>8. e.free => keyed = given
    BY <1>5
  <1> HIDE DEF c, given, keyed
  <1>9. \/ keyed.idempotency_key = given.idempotency_key
        \/ /\ given.idempotency_key = {}
           /\ \E n \in 1 .. k : keyed.idempotency_key = {Uuids[n]}
    BY <1>4, <1>7
  <1>10. /\ \A n \in DOMAIN Uuids : Uuids[n] \in keyed.idempotency_key =>
               k = minted + 1 /\ n = k
    <2> SUFFICES ASSUME NEW n \in DOMAIN Uuids, Uuids[n] \in keyed.idempotency_key
                 PROVE  k = minted + 1 /\ n = k
      OBVIOUS
    <2>1. Uuids[n] \notin given.idempotency_key
      BY <1>3, MintedIsFresh
    <2>2. mints /\ Uuids[n] = Uuids[minted + 1]
      BY <1>7, <2>1
    <2>3. minted + 1 \in DOMAIN Uuids
      BY <1>1, <1>4, RequestsAssumption DEF RequestsAssumption
    <2> QED BY <2>2, <2>3, UuidAssumption, ZenonT(30) DEF UuidAssumption
  <1> HIDE DEF mints, k
  <1>11. CASE e.free
    <2> DEFINE d == CredentialFreeClone(c)
               p == CredentialFreeOptions(given)
    <2>1. /\ Bare(d, p) /\ Made(d) /\ p.headers \subseteq given.headers
          /\ p.idempotency_key = given.idempotency_key
      BY <1>2, <1>3, CloneIsBare
    <2>2. call = NewCall(d, e, given, p)
      BY <1>8, <1>11
    <2> HIDE DEF d, p, call
    <2>3. CallOK(call, k)
      BY <1>3, <1>5, <1>11, <2>1, <2>2, NewCallOK
    <2>4. call.options = p
      BY <2>2 DEF NewCall
    <2>5. \A n \in DOMAIN Uuids : Uuids[n] \in call.options.idempotency_key =>
              k = minted + 1 /\ n = k
      BY <1>8, <1>10, <1>11, <2>1, <2>4
    <2> QED BY <1>1, <1>6, <2>3, <2>5, Appended
  <1>12. CASE ~ e.free
    <2>1. call = NewCall(c, e, given, keyed)
      BY <1>12
    <2> HIDE DEF call
    <2>2. CallOK(call, k)
      BY <1>2, <1>3, <1>5, <1>7, <1>9, <1>12, <2>1, NewCallOK DEF ClientOK
    <2>3. call.options = keyed
      BY <2>1 DEF NewCall
    <2> QED BY <1>1, <1>6, <1>10, <2>2, <2>3, Appended
  <1> QED BY <1>11, <1>12
(* A refused call, and one of a public document, keep the invariant.       *)
LEMMA RefuseKeeps ==
    ASSUME WireInv, NEW base, NEW e \in Endpoints(base), NEW o \in CallOptions, Refuse(e, o)
    PROVE  WireInv'
  <1> DEFINE c == Only(client)
             call == [NewCall(c, e, o, o) EXCEPT !.phase = "failed"]
  <1>1. /\ client # {} /\ Len(calls) < MaxCalls
        /\ calls' = Append(calls, call) /\ minted' = minted /\ client' = client
    BY DEF Refuse
  <1>2. c \in client /\ ClientOK(c)
    BY <1>1 DEF Only, WireInv
  <1> HIDE DEF c
  <1>3. call = [endpoint |-> e, client |-> c, asked |-> o, options |-> o,
                phase |-> "failed", sends |-> 0, index |-> 1, first |-> {}, last |-> {}]
    BY DEF NewCall
  <1> HIDE DEF call
  <1>4. e.plane # "public"
    BY EndpointFacts
  <1>5. \A n : ValuesOf({}, n) = {} /\ Names({}) = {}
    BY DEF ValuesOf, Names
  <1>6. Shape(call) /\ call.sends \in Nat /\ Fresh(call) /\ Unkeyed(call) /\ Stripped(call)
    BY <1>3, <1>4 DEF Shape, Fresh, Unkeyed, IsPublic, Stripped
  <1>7. CarriesNone(call) /\ Steady(call) /\ HasKey(call) /\ Keyed(call, minted)
    BY <1>3, <1>5 DEF CarriesNone, Steady, HasKey, Keyed
  <1>8. CallOK(call, minted)
    BY <1>2, <1>3, <1>6, <1>7 DEF CallOK, ClientOK
  <1>9. \A n \in DOMAIN Uuids : Uuids[n] \notin call.options.idempotency_key
    BY <1>3, MintedIsFresh
  <1> QED BY <1>1, <1>8, <1>9, Appended

(* credential_free_json keeps the invariant.                               *)
LEMMA FetchPublicKeeps ==
    ASSUME WireInv, NEW acceptable \in BOOLEAN, FetchPublic(acceptable)
    PROVE  WireInv'
  <1> DEFINE c == CredentialFreeClone(Only(client))
             phase == IF acceptable THEN "waiting" ELSE "failed"
             sends == IF acceptable THEN 1 ELSE 0
             call == [NewCall(c, Public, NoOptions, NoOptions)
                         EXCEPT !.phase = phase, !.sends = sends]
  <1>1. /\ client # {} /\ Len(calls) < MaxCalls
        /\ calls' = Append(calls, call) /\ minted' = minted /\ client' = client
    BY DEF FetchPublic
  <1>2. Made(c)
    BY <1>1, CloneIsBare DEF Only, WireInv
  <1>3. phase # "ready" /\ sends \in Nat
    OBVIOUS
  <1> HIDE DEF c, phase, sends
  <1>4. call = [endpoint |-> Public, client |-> c, asked |-> NoOptions,
                options |-> NoOptions, phase |-> phase, sends |-> sends, index |-> 1,
                first |-> {}, last |-> {}]
    <2> DEFINE fresh == NewCall(c, Public, NoOptions, NoOptions)
               moved == [fresh EXCEPT !.phase = phase]
    <2>1. fresh = [endpoint |-> Public, client |-> c, asked |-> NoOptions,
                   options |-> NoOptions, phase |-> "ready", sends |-> 0, index |-> 1,
                   first |-> {}, last |-> {}]
      BY DEF NewCall
    <2> HIDE DEF fresh
    <2>2. moved = [endpoint |-> Public, client |-> c, asked |-> NoOptions,
                   options |-> NoOptions, phase |-> phase, sends |-> 0, index |-> 1,
                   first |-> {}, last |-> {}]
      BY <2>1
    <2> HIDE DEF moved
    <2>3. call = [moved EXCEPT !.sends = sends]
      BY DEF moved, fresh
    <2> QED BY <2>2, <2>3
  <1> HIDE DEF call
  <1>5. Public.plane = "public" /\ ~ Public.mints
    BY DEF Public, Endpoint
  <1>6. NoOptions.idempotency_key = {} /\ Filled({}) = {}
    BY DEF NoOptions, Filled
  <1>7. \A n : ValuesOf({}, n) = {} /\ Names({}) = {}
    BY DEF ValuesOf, Names
  <1>8. /\ Shape(call) /\ call.sends \in Nat /\ Fresh(call)
        /\ Unkeyed(call) /\ Stripped(call)
    BY <1>3, <1>4, <1>5, <1>6 DEF Shape, Fresh, Unkeyed, IsPublic, Stripped
  <1>9. CarriesNone(call) /\ Steady(call) /\ HasKey(call) /\ Keyed(call, minted)
    BY <1>3, <1>4, <1>5, <1>6, <1>7
       DEF CarriesNone, Steady, HasKey, Keyed, IsPublic
  <1>10. CallOK(call, minted)
    BY <1>2, <1>4, <1>8, <1>9 DEF CallOK
  <1>11. \A n \in DOMAIN Uuids : Uuids[n] \notin call.options.idempotency_key
    BY <1>4, <1>6
  <1> QED BY <1>1, <1>10, <1>11, Appended

(* The key of a call that has one is alone on the wire.                    *)
LEMMA OneKeyCarried ==
    ASSUME NEW call, NEW k \in Nat, k <= MaxCalls, Keyed(call, k), call.endpoint.mints,
           call.phase # "failed", Empty \notin call.asked.idempotency_key
    PROVE  \E key : Carries(call.client, call.options, "idempotency-key") = {key}
  <1> DEFINE keys == call.options.idempotency_key
  <1>1. keys # {}
    BY DEF Keyed
  <1>2. \A x, y \in keys : x = y
    BY OptionsAssumption DEF Keyed, OptionsAssumption, NoOptions
  <1>3. Empty \notin keys
    <2>1. CASE keys = call.asked.idempotency_key
      BY <2>1
    <2>2. ASSUME NEW n \in 1 .. k, keys = {Uuids[n]} PROVE Empty \notin keys
      <3>1. n \in DOMAIN Uuids
        BY RequestsAssumption DEF RequestsAssumption
      <3> QED BY <2>2, <3>1, UuidAssumption, ZenonT(30) DEF UuidAssumption, Empty
    <2> QED BY <2>1, <2>2 DEF Keyed
  <1> HIDE DEF keys
  <1>4. PICK key \in keys : keys = {key}
    BY <1>1, <1>2
  <1>5. Filled(keys) = {key}
    BY <1>3, <1>4 DEF Filled
  <1>6. SdkValues(call.client, call.options, {}, "idempotency-key") = {key}
    BY <1>5 DEF SdkValues, keys
  <1>7. Carries(call.client, call.options, "idempotency-key") = {key}
    BY <1>6 DEF Carries
  <1> QED BY <1>7
(* A call is its fields, before and after some of them change.             *)
LEMMA CallFields ==
    ASSUME NEW call, Shape(call), NEW phase, NEW index
    PROVE  /\ [call EXCEPT !.phase = phase]
                 = [endpoint |-> call.endpoint, client |-> call.client,
                    asked |-> call.asked, options |-> call.options, phase |-> phase,
                    sends |-> call.sends, index |-> call.index, first |-> call.first,
                    last |-> call.last]
           /\ [call EXCEPT !.phase = phase, !.index = index]
                 = [endpoint |-> call.endpoint, client |-> call.client,
                    asked |-> call.asked, options |-> call.options, phase |-> phase,
                    sends |-> call.sends, index |-> index, first |-> call.first,
                    last |-> call.last]
  <1>1. PICK e, c, a, o, p, s, x, f, l :
            call = [endpoint |-> e, client |-> c, asked |-> a, options |-> o, phase |-> p,
                    sends |-> s, index |-> x, first |-> f, last |-> l]
    BY ZenonT(30) DEF Shape
  <1>2. /\ call.endpoint = e /\ call.client = c /\ call.asked = a /\ call.options = o
        /\ call.sends = s /\ call.index = x /\ call.first = f /\ call.last = l
    BY <1>1
  <1> DEFINE m == [call EXCEPT !.phase = phase]
  <1>3. m = [endpoint |-> e, client |-> c, asked |-> a, options |-> o, phase |-> phase,
             sends |-> s, index |-> x, first |-> f, last |-> l]
    BY <1>1
  <1> HIDE DEF m
  <1>4. [m EXCEPT !.index = index]
            = [endpoint |-> e, client |-> c, asked |-> a, options |-> o, phase |-> phase,
               sends |-> s, index |-> index, first |-> f, last |-> l]
    BY <1>3
  <1> QED BY <1>2, <1>3, <1>4, ZenonT(30) DEF m

Sent(call, sends, first, last) ==
    [call EXCEPT !.phase = "waiting", !.sends = sends, !.first = first, !.last = last]

(* The same for an attempt that leaves.                                    *)
LEMMA SentFields ==
    ASSUME NEW call, Shape(call), NEW sends, NEW first, NEW last
    PROVE  Sent(call, sends, first, last)
              = [endpoint |-> call.endpoint, client |-> call.client,
                 asked |-> call.asked, options |-> call.options, phase |-> "waiting",
                 sends |-> sends, index |-> call.index, first |-> first, last |-> last]
  <1> DEFINE phase == "waiting"
             m == [call EXCEPT !.phase = phase]
             t == [m EXCEPT !.sends = sends]
             u == [t EXCEPT !.first = first]
  <1>1. m = [endpoint |-> call.endpoint, client |-> call.client, asked |-> call.asked,
             options |-> call.options, phase |-> phase, sends |-> call.sends,
             index |-> call.index, first |-> call.first, last |-> call.last]
    BY CallFields, ZenonT(30)
  <1> HIDE DEF m
  <1>2. t = [endpoint |-> call.endpoint, client |-> call.client, asked |-> call.asked,
             options |-> call.options, phase |-> phase, sends |-> sends,
             index |-> call.index, first |-> call.first, last |-> call.last]
    BY <1>1
  <1> HIDE DEF t
  <1>3. u = [endpoint |-> call.endpoint, client |-> call.client, asked |-> call.asked,
             options |-> call.options, phase |-> phase, sends |-> sends,
             index |-> call.index, first |-> first, last |-> call.last]
    BY <1>2
  <1> HIDE DEF u
  <1>4. [u EXCEPT !.last = last]
            = [endpoint |-> call.endpoint, client |-> call.client, asked |-> call.asked,
               options |-> call.options, phase |-> phase, sends |-> sends,
               index |-> call.index, first |-> first, last |-> last]
    BY <1>3
  <1> QED BY <1>4, ZenonT(30) DEF m, t, u, Sent

(* A call whose phase or candidate moves is as sound as before.            *)
LEMMA MovedOK ==
    ASSUME NEW old, NEW k, CallOK(old, k), NEW phase, NEW index, NEW call,
           call = [endpoint |-> old.endpoint, client |-> old.client, asked |-> old.asked,
                   options |-> old.options, phase |-> phase, sends |-> old.sends,
                   index |-> index, first |-> old.first, last |-> old.last],
           old.phase # "failed", phase = "ready" => ~ IsPublic(old)
    PROVE  CallOK(call, k) /\ call.options = old.options
  <1>1. /\ call.endpoint = old.endpoint /\ call.client = old.client
        /\ call.asked = old.asked /\ call.options = old.options
        /\ call.phase = phase /\ call.sends = old.sends
        /\ call.first = old.first /\ call.last = old.last
    BY ZenonT(30)
  <1>2. Shape(call)
    BY ZenonT(30) DEF Shape
  <1>3. Unkeyed(call) /\ Stripped(call)
    BY <1>1 DEF CallOK, Unkeyed, Stripped, IsPublic
  <1>4. Fresh(call) /\ CarriesNone(call) /\ Steady(call) /\ call.sends \in Nat
    BY <1>1 DEF CallOK, Fresh, CarriesNone, Steady, IsPublic
  <1>5. Keyed(call, k) /\ HasKey(call) /\ Made(call.client)
    BY <1>1 DEF CallOK, Keyed, HasKey, Keys
  <1> QED BY <1>1, <1>2, <1>3, <1>4, <1>5 DEF CallOK

(* An attempt leaves: it carries what the attempts before it carried.      *)
LEMMA SendKeeps ==
    ASSUME WireInv, NEW i \in DOMAIN calls, Send(i)
    PROVE  WireInv'
  <1> DEFINE call == calls[i]
             c == call.client
             o == call.options
             value == RecorderValue(c, call.endpoint, call.index)
             wire == Wire(c, o, value)
             first == IF call.sends = 0 THEN wire ELSE call.first
             sent == Sent(call, call.sends + 1, first, wire)
             stopped == [call EXCEPT !.phase = "failed"]
  <1>1. /\ call.phase = "ready" /\ minted' = minted /\ client' = client
        /\ \/ calls' = [calls EXCEPT ![i] = stopped]
           \/ calls' = [calls EXCEPT ![i] = sent]
    BY ZenonT(60) DEF Send, Wire, Sent
  <1>2. CallOK(call, minted) /\ Shape(call) /\ minted \in Nat /\ minted <= MaxCalls
    <2>1. minted <= Len(calls) /\ Len(calls) <= MaxCalls /\ minted \in Nat /\ Len(calls) \in Nat
      BY SequenceSteps DEF WireInv
    <2> QED BY <2>1, RequestsAssumption DEF WireInv, CallOK, RequestsAssumption
  <1>3. ~ IsPublic(call)
    BY <1>1, <1>2 DEF CallOK, Unkeyed
  <1>4. \A n \in SteadyNames : ValuesOf(wire, n) = Carries(c, o, n)
    BY WireValues DEF SteadyNames
  <1>5. call.endpoint.free => value = {}
    BY <1>1, <1>2, <1>3 DEF CallOK, Stripped, Bare, RecorderValue
  <1>6. call.endpoint.free =>
            /\ Names(wire) \cap CredentialHeaders \subseteq {"idempotency-key"}
            /\ ValuesOf(wire, "idempotency-key") = Filled(call.asked.idempotency_key)
    <2> SUFFICES ASSUME call.endpoint.free
                 PROVE  /\ Names(Wire(c, o, {})) \cap CredentialHeaders
                              \subseteq {"idempotency-key"}
                        /\ ValuesOf(Wire(c, o, {}), "idempotency-key")
                              = Filled(call.asked.idempotency_key)
      BY <1>5
    <2>1. Bare(c, o) /\ o.idempotency_key = call.asked.idempotency_key
      BY <1>1, <1>2, <1>3 DEF CallOK, Stripped
    <2> QED BY <2>1, BareCarriesNone
  <1>7. call.endpoint.mints /\ Empty \notin call.asked.idempotency_key =>
            \E key : Carries(c, o, "idempotency-key") = {key}
    BY <1>1, <1>2, OneKeyCarried, ZenonT(30) DEF CallOK
  <1>8. "idempotency-key" \in SteadyNames
    BY DEF SteadyNames
  <1> HIDE DEF wire, value
  <1>9. CASE calls' = [calls EXCEPT ![i] = stopped]
    <2>1. stopped = [endpoint |-> call.endpoint, client |-> c, asked |-> call.asked,
                     options |-> o, phase |-> "failed", sends |-> call.sends,
                     index |-> call.index, first |-> call.first, last |-> call.last]
      BY <1>2, CallFields, ZenonT(30)
    <2>2. CallOK(stopped, minted) /\ stopped.options = call.options
      <3> HIDE DEF stopped, call
      <3> QED BY <1>1, <1>2, <2>1, MovedOK DEF c, o
    <2> QED BY <1>1, <1>9, <2>2, Updated, ZenonT(30)
  <1>10. CASE calls' = [calls EXCEPT ![i] = sent]
    <2>1. call.sends \in Nat /\ call.sends + 1 # 0 /\ call.sends + 1 > 0
      BY <1>2 DEF CallOK
    <2>2. sent = [endpoint |-> call.endpoint, client |-> c, asked |-> call.asked,
                  options |-> o, phase |-> "waiting", sends |-> call.sends + 1,
                  index |-> call.index, first |-> first, last |-> wire]
      <3> HIDE DEF first, call
      <3> QED BY <1>2, SentFields
    <2>3. \A n \in SteadyNames : ValuesOf(first, n) = Carries(c, o, n)
      BY <1>2, <1>3, <1>4, <2>1 DEF CallOK, Steady
    <2> HIDE DEF sent, call, first
    <2>4. Shape(sent) /\ sent.sends \in Nat /\ Fresh(sent) /\ Unkeyed(sent)
      BY <1>3, <2>1, <2>2 DEF Shape, Fresh, Unkeyed, IsPublic
    <2>5. Stripped(sent)
      BY <1>1, <1>2, <1>3, <2>2 DEF CallOK, Stripped, IsPublic
    <2>6. CarriesNone(sent)
      BY <1>6, <2>1, <2>2 DEF CarriesNone
    <2>7. Steady(sent)
      BY <1>4, <2>2, <2>3 DEF Steady
    <2>8. Keyed(sent, minted)
      BY <1>1, <1>2, <2>2 DEF CallOK, Keyed
    <2>9. HasKey(sent)
      BY <1>4, <1>7, <1>8, <2>2 DEF HasKey, Keys
    <2>10. CallOK(sent, minted)
      BY <1>2, <2>2, <2>4, <2>5, <2>6, <2>7, <2>8, <2>9 DEF CallOK
    <2>11. sent.options = calls[i].options
      BY <2>2 DEF call
    <2> QED BY <1>1, <1>10, <2>10, <2>11, Updated, ZenonT(30)
  <1> QED BY <1>1, <1>9, <1>10

(* An answer, or another attempt, only moves the phase and the candidate.  *)
LEMMA PhaseKeeps ==
    ASSUME WireInv, NEW i \in DOMAIN calls, NEW phase, NEW index, NEW call,
           calls[i].phase = "waiting", phase = "ready" => ~ IsPublic(calls[i]),
           call = [calls[i] EXCEPT !.phase = phase, !.index = index],
           calls' = [calls EXCEPT ![i] = call], minted' = minted, client' = client
    PROVE  WireInv'
  <1>1. CallOK(calls[i], minted) /\ Shape(calls[i])
    BY DEF WireInv, CallOK
  <1>2. call = [endpoint |-> calls[i].endpoint, client |-> calls[i].client,
                asked |-> calls[i].asked, options |-> calls[i].options,
                phase |-> phase, sends |-> calls[i].sends, index |-> index,
                first |-> calls[i].first, last |-> calls[i].last]
    BY <1>1, CallFields, ZenonT(30)
  <1>3. CallOK(call, minted) /\ call.options = calls[i].options
    BY <1>1, <1>2, MovedOK, ZenonT(30)
  <1> QED BY <1>3, Updated, ZenonT(30)
(* The invariant holds initially.                                          *)
LEMMA InitWireInv == Init => WireInv
  <1> SUFFICES ASSUME Init PROVE WireInv
    OBVIOUS
  <1>1. IsSequence(calls) /\ Len(calls) = 0 /\ DOMAIN calls = {}
    <2>1. calls = << >> /\ << >> \in Seq({})
      BY DEF Init
    <2> QED BY <2>1 DEF IsSequence
  <1> QED BY <1>1, RequestsAssumption DEF Init, WireInv, KeysApart, RequestsAssumption

(* A client that is built is made of its builder.                          *)
LEMMA BuiltOK ==
    ASSUME NEW b \in Configurations, NEW c \in BuiltClient(b)
    PROVE  ClientOK(c)
  <1>1. PICK base \in ParseBaseUrl(b.base), control \in ParseBaseUrl(b.control) :
            c = [api_key |-> b.api_key, workspace_id |-> b.workspace_id,
                 headers |-> b.headers, bases |-> ApiBaseUrls(base, b.regional_failover),
                 control |-> control, injected |-> b.injected,
                 http |-> IF b.injected = {} THEN "owned" ELSE "injected",
                 telemetry |-> ResolveTelemetryEnabled(b.telemetry, b.env, b.do_not_track,
                                                       b.base, b.control)]
    BY DEF BuiltClient
  <1>2. c.headers = b.headers /\ c.injected = b.injected
    BY <1>1
  <1>3. Made(c)
    BY <1>2 DEF Made
  <1>4. c = [api_key |-> c.api_key, workspace_id |-> c.workspace_id, headers |-> c.headers,
             bases |-> c.bases, control |-> c.control, injected |-> c.injected,
             http |-> c.http, telemetry |-> c.telemetry]
    BY <1>1
  <1> QED BY <1>3, <1>4 DEF ClientOK

(* Every step keeps it.                                                    *)
LEMMA NextWireInv == WireInv /\ [Next]_vars => WireInv'
  <1> SUFFICES ASSUME WireInv, [Next]_vars PROVE WireInv'
    OBVIOUS
  <1>1. CASE UNCHANGED vars
    BY <1>1 DEF vars, WireInv
  <1>2. ASSUME NEW b \in Configurations, Build(b) PROVE WireInv'
    <2>1. /\ client' = BuiltClient(b) /\ calls' = calls /\ minted' = minted
      BY <1>2 DEF Build
    <2>2. \A c \in client' : ClientOK(c)
      BY <2>1, BuiltOK
    <2> QED BY <2>1, <2>2 DEF WireInv
  <1>3. ASSUME NEW base, NEW e \in Endpoints(base), NEW o \in CallOptions,
               Begin(e, o) \/ Refuse(e, o)
        PROVE  WireInv'
    BY <1>3, BeginKeeps, RefuseKeeps
  <1>4. ASSUME NEW acceptable \in BOOLEAN, FetchPublic(acceptable) PROVE WireInv'
    BY <1>4, FetchPublicKeeps
  <1>5. ASSUME NEW i \in DOMAIN calls, Send(i) PROVE WireInv'
    BY <1>5, SendKeeps
  <1>6. ASSUME NEW i \in DOMAIN calls, NEW cookies, Answer(i, cookies) PROVE WireInv'
    <2> DEFINE call == [calls[i] EXCEPT !.phase = "done"]
    <2>1. /\ calls[i].phase = "waiting" /\ calls' = [calls EXCEPT ![i] = call]
          /\ minted' = minted /\ client' = client
      BY <1>6 DEF Answer
    <2>2. CallOK(calls[i], minted) /\ Shape(calls[i])
      BY DEF WireInv, CallOK
    <2>3. call = [endpoint |-> calls[i].endpoint, client |-> calls[i].client,
                  asked |-> calls[i].asked, options |-> calls[i].options,
                  phase |-> "done", sends |-> calls[i].sends, index |-> calls[i].index,
                  first |-> calls[i].first, last |-> calls[i].last]
      BY <2>2, CallFields, ZenonT(30)
    <2> HIDE DEF call
    <2>4. CallOK(call, minted) /\ call.options = calls[i].options
      BY <2>1, <2>2, <2>3, MovedOK
    <2> QED BY <2>1, <2>4, Updated, ZenonT(30)
  <1>7. ASSUME NEW i \in DOMAIN calls, NEW cookies, NEW moves \in BOOLEAN,
               Again(i, cookies, moves)
        PROVE  WireInv'
    <2> DEFINE index == IF moves THEN calls[i].index + 1 ELSE calls[i].index
               call == [calls[i] EXCEPT !.phase = "ready", !.index = index]
    <2>1. /\ calls[i].phase = "waiting" /\ ~ IsPublic(calls[i])
          /\ minted' = minted /\ client' = client
      BY <1>7, ZenonT(30) DEF Again, IsPublic
    <2>2. calls' = [calls EXCEPT ![i] = call]
      BY <1>7, ZenonT(30) DEF Again
    <2> HIDE DEF index
    <2>3. call = [calls[i] EXCEPT !.phase = "ready", !.index = index]
      OBVIOUS
    <2> HIDE DEF call
    <2> QED BY <2>1, <2>2, <2>3, PhaseKeeps, ZenonT(30)
  <1> QED BY <1>1, <1>2, <1>3, <1>4, <1>5, <1>6, <1>7 DEF Next
(* A key on the wire is the call's option, or stands in a header of the    *)
(* call or the client or among the defaults of an injected HTTP client.    *)
LEMMA KeyIsFrom ==
    ASSUME NEW c, NEW o, NEW key \in Carries(c, o, "idempotency-key")
    PROVE  \/ key \in o.idempotency_key
           \/ \E h \in c.headers \cup o.headers : h.name = "idempotency-key" /\ h.value = key
           \/ \E http \in c.injected : key \in ValuesOf(http.defaults, "idempotency-key")
  <1> DEFINE n == "idempotency-key"
             defaults == UNION {i.defaults : i \in c.injected}
  <1>1. CASE key \in SdkValues(c, o, {}, n)
    <2>1. key \in Filled(o.idempotency_key) \/ key \in ValuesOf(Layered(c, o), n)
      BY <1>1 DEF SdkValues
    <2> QED BY <2>1, LayeredValues DEF Filled
  <1>2. CASE key \in ValuesOf(defaults, n)
    <2>1. PICK d \in defaults : d[1] = n /\ d[2] = key
      BY <1>2 DEF ValuesOf
    <2>2. PICK http \in c.injected : d \in http.defaults
      BY <2>1
    <2>3. key \in ValuesOf(http.defaults, n)
      BY <2>1, <2>2 DEF ValuesOf
    <2> QED BY <2>2, <2>3
  <1> QED BY <1>1, <1>2 DEF Carries

(* Every key of a call is one the caller supplied, or the one minted for   *)
(* the call, which the caller did not supply to any.                       *)
LEMMA KeyIsSuppliedOrMinted ==
    ASSUME NEW call, NEW k \in Nat, k <= MaxCalls, CallOK(call, k), NEW key \in Keys(call)
    PROVE  \/ key \in Supplied(call) /\ \A n \in DOMAIN Uuids : key # Uuids[n]
           \/ \E n \in DOMAIN Uuids :
                 key = Uuids[n] /\ Uuids[n] \in call.options.idempotency_key
  <1>1. call.sends > 0 /\ ~ IsPublic(call)
    BY DEF CallOK, Fresh, Unkeyed, Keys, ValuesOf
  <1>2. key \in Carries(call.client, call.options, "idempotency-key")
    BY <1>1 DEF CallOK, Steady, SteadyNames, Keys
  <1>3. PICK b \in Configurations : call.client.headers \subseteq b.headers
                                    /\ call.client.injected = b.injected
    BY DEF CallOK, Made
  <1>4. /\ call.asked \in CallOptions \cup {NoOptions}
        /\ call.options.headers \subseteq call.asked.headers
    BY DEF CallOK, Keyed
  <1>5. CASE key \in call.options.idempotency_key
    <2>1. CASE call.options.idempotency_key = call.asked.idempotency_key
      <3>1. key \in Supplied(call)
        BY <1>5, <2>1 DEF Supplied
      <3>2. \A n \in DOMAIN Uuids : key # Uuids[n]
        BY <1>4, <1>5, <2>1, MintedIsFresh
      <3> QED BY <3>1, <3>2
    <2>2. ASSUME NEW n \in 1 .. k, call.options.idempotency_key = {Uuids[n]}
          PROVE  \E m \in DOMAIN Uuids :
                     key = Uuids[m] /\ Uuids[m] \in call.options.idempotency_key
      <3>1. n \in DOMAIN Uuids
        BY RequestsAssumption DEF RequestsAssumption
      <3> QED BY <1>5, <2>2, <3>1
    <2> QED BY <2>1, <2>2 DEF CallOK, Keyed
  <1>6. ASSUME NEW h \in call.client.headers \cup call.options.headers,
               h.name = "idempotency-key", h.value = key
        PROVE  key \in Supplied(call) /\ \A n \in DOMAIN Uuids : key # Uuids[n]
    <2>1. h \in call.asked.headers \cup call.client.headers
      BY <1>4
    <2>2. key \in Supplied(call)
      BY <1>6, <2>1 DEF Supplied
    <2>3. ASSUME NEW n \in DOMAIN Uuids PROVE key # Uuids[n]
      <3>1. CASE h \in call.asked.headers
        BY <1>4, <1>6, <3>1, MintedIsFresh
      <3>2. CASE h \in b.headers
        BY <1>6, <3>2, UuidAssumption, ZenonT(30) DEF UuidAssumption
      <3> QED BY <1>3, <2>1, <3>1, <3>2
    <2> QED BY <2>2, <2>3
  <1>7. ASSUME NEW http \in call.client.injected,
               key \in ValuesOf(http.defaults, "idempotency-key")
        PROVE  key \in Supplied(call) /\ \A n \in DOMAIN Uuids : key # Uuids[n]
    <2>1. key \in Supplied(call)
      BY <1>7 DEF Supplied
    <2>2. key \in {d[2] : d \in http.defaults} /\ http \in b.injected
      BY <1>3, <1>7 DEF ValuesOf
    <2> QED BY <2>1, <2>2, UuidAssumption, ZenonT(30) DEF UuidAssumption
  <1> QED BY <1>2, <1>5, <1>6, <1>7, KeyIsFrom

(* The invariant is what the properties need.                              *)
LEMMA WireInvIsEnough == WireInv => CredentialFreeCallsCarryNone /\ OneKeyPerCall
  <1> SUFFICES ASSUME WireInv PROVE CredentialFreeCallsCarryNone /\ OneKeyPerCall
    OBVIOUS
  <1>1. CredentialFreeCallsCarryNone
    BY DEF WireInv, CallOK, CarriesNone, CredentialFreeCallsCarryNone
  <1>2. minted \in Nat /\ minted <= MaxCalls
    <2>1. minted <= Len(calls) /\ Len(calls) <= MaxCalls /\ minted \in Nat /\ Len(calls) \in Nat
      BY SequenceSteps DEF WireInv
    <2> QED BY <2>1, RequestsAssumption DEF RequestsAssumption
  <1>3. ASSUME NEW i \in DOMAIN calls, calls[i].sends > 0,
               NEW name \in {"authorization", "x-trustedrouter-workspace", "idempotency-key"}
        PROVE  ValuesOf(calls[i].first, name) = ValuesOf(calls[i].last, name)
    BY <1>3, ZenonT(30) DEF WireInv, CallOK, Steady, Unkeyed, SteadyNames
  <1>4. ASSUME NEW i \in DOMAIN calls, calls[i].sends > 0, calls[i].endpoint.mints,
               Empty \notin calls[i].asked.idempotency_key
        PROVE  Cardinality(Keys(calls[i])) = 1
    <2>1. PICK key : Keys(calls[i]) = {key}
      BY <1>4, ZenonT(30) DEF WireInv, CallOK, HasKey
    <2> QED BY <2>1, FS_Singleton, ZenonT(30)
  <1>5. ASSUME NEW i \in DOMAIN calls, NEW j \in DOMAIN calls, i # j,
               NEW key \in Keys(calls[i]) \cap Keys(calls[j])
        PROVE  key \in Supplied(calls[i]) \cap Supplied(calls[j])
    <2>1. CallOK(calls[i], minted) /\ CallOK(calls[j], minted)
      BY DEF WireInv
    <2>2. ASSUME NEW n \in DOMAIN Uuids, key = Uuids[n] PROVE FALSE
      <3>1. Uuids[n] \in calls[i].options.idempotency_key
        BY <1>2, <2>1, <2>2, KeyIsSuppliedOrMinted
      <3>2. Uuids[n] \in calls[j].options.idempotency_key
        BY <1>2, <2>1, <2>2, KeyIsSuppliedOrMinted
      <3> QED BY <1>5, <3>1, <3>2 DEF WireInv, KeysApart
    <2> QED BY <1>2, <2>1, <2>2, KeyIsSuppliedOrMinted
  <1> QED BY <1>1, <1>3, <1>4, <1>5 DEF OneKeyPerCall

(* No request of a credential-free method carries a credential, whatever   *)
(* client, headers, injected HTTP client and cookies there are             *)
(* (credential_free_clone, credential_free_plane_bytes).                   *)
THEOREM CredentialFreeCallsStayFree == Spec => []CredentialFreeCallsCarryNone
  BY InitWireInv, NextWireInv, WireInvIsEnough, PTL DEF Spec

(* A key names one call: it and the credentials are the same on every      *)
(* attempt, a call that changes something has one, and two calls share a   *)
(* key only if the caller wrote it for both (ensure_idempotency_key).      *)
THEOREM KeysNameOneCall == Spec => []OneKeyPerCall
  BY InitWireInv, NextWireInv, WireInvIsEnough, PTL DEF Spec
=============================================================================
