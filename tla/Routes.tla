------------------------------- MODULE Routes -------------------------------
(* L2, the plane router, and what the SDK tells from a route: the ordered  *)
(* candidates of a call (routing.rs), the hosts and routes that telemetry  *)
(* may name (telemetry.rs) and the prompt routes whose streams are         *)
(* validated (sse.rs).                                                     *)
(*                                                                         *)
(* A URL path is the sequence of segments after its first '/'.  A segment  *)
(* is a sequence of words, more than one when an escaped '/' or a '\'      *)
(* joins them, and the form it is written in: as it is, with a letter      *)
(* escaped, in capitals, with a '\', or as a URL scheme, which ends in ':'.*)
(* A query is left out: no operator here looks at one.                     *)
EXTENDS Naturals, Sequences, SequencesExt

Segment(words, form) == [words |-> words, form |-> form]

Plain(word) == Segment(<< word >>, "plain")

NoSegment == Plain("")

Scheme(name) == Segment(<< name >>, "scheme")

Plains(words) == [i \in 1 .. Len(words) |-> Plain(words[i])]

Origin(scheme, host) == [scheme |-> scheme, host |-> host]

(* A URL names an origin and a path; a base URL's path ends with a '/', of *)
(* which dir keeps what stands before it.                                  *)
Base(scheme, host, words) ==
    [origin |-> Origin(scheme, host), dir |-> Plains(words)]

DefaultApiBaseUrl == Base("https", "api.trustedrouter.com", << "v1" >>)

AliasApiBaseUrls ==
    << Base("https", "api.allyrouter.com", << "v1" >>),
       Base("https", "api.uptimerouter.com", << "v1" >>) >>

DefaultControlBaseUrl == Base("https", "trustedrouter.com", << "v1" >>)

-----------------------------------------------------------------------------
(* Url::join of a path without its leading '/'s: dot segments, escaped or  *)
(* not, are resolved, and one at the end leaves a trailing '/'.            *)
IsDot(segment) == segment.words = << "." >>

IsDotDot(segment) == segment.words = << ".." >>

Shorten(path) == IF path = << >> THEN path ELSE Front(path)

Join(dir, path) ==
    LET trailing(i) == IF i = Len(path) THEN << NoSegment >> ELSE << >>
        step(joined, i) ==
            IF IsDotDot(path[i]) THEN Shorten(joined) \o trailing(i)
            ELSE IF IsDot(path[i]) THEN joined \o trailing(i)
            ELSE Append(joined, path[i])
    IN  FoldLeftDomain(step, dir, path)

(* A reference that starts with a scheme is a URL of its own: after two    *)
(* '/'s, or under a base of another scheme, the next segment is its host;  *)
(* else it is a path from the base's root.                                 *)
ReadsAsUrl(path) == path # << >> /\ path[1].form = "scheme"

JoinUrl(origin, path) ==
    LET scheme == path[1].words[1]
        slashes == path[2] = NoSegment
        host == IF slashes THEN 3 ELSE 2
    IN  IF slashes \/ scheme # origin.scheme
        THEN [origin |-> Origin(scheme, path[host].words[1]),
              path |-> Join(<< >>, SubSeq(path, host + 1, Len(path)))]
        ELSE [origin |-> origin, path |-> Join(<< >>, Tail(path))]

(* base.join of a path that lost its leading '/'s.                         *)
Resolve(base, path) ==
    IF ReadsAsUrl(path) THEN JoinUrl(base.origin, path)
    ELSE [origin |-> base.origin, path |-> Join(base.dir, path)]

(* The paths plane_urls and relative_url accept: a '/', not two, and no    *)
(* '\' anywhere.                                                           *)
RootRelative(path) ==
    /\ Len(path) > 1 => path[1].words # << "" >>
    /\ \A i \in DOMAIN path : path[i].form # "backslash"

(* parse_base_url, of a URL that is written with or without the last '/'.  *)
ParseBaseUrl(url) ==
    IF url.origin.scheme \in {"http", "https"} /\ url.origin.host # ""
    THEN {[origin |-> url.origin, dir |-> url.dir]} ELSE {}

AliasesWhateverTheBase(primary) == << primary >> \o AliasApiBaseUrls

(* inference_base_urls.                                                    *)
InferenceBaseUrls(primary) ==
    IF primary = DefaultApiBaseUrl THEN << primary >> \o AliasApiBaseUrls
    ELSE << primary >>

(* The bases a built client keeps for inference.                           *)
ApiBaseUrls(primary, regional_failover) ==
    IF regional_failover THEN InferenceBaseUrls(primary) ELSE << primary >>

(* plane_urls and relative_url, of a client's bases.                       *)
PlaneUrls(bases, path) ==
    IF RootRelative(path)
    THEN [i \in 1 .. Len(bases) |-> Resolve(bases[i], path)]
    ELSE << >>

-----------------------------------------------------------------------------
LiteralRoute(path) ==
    [i \in 1 .. Len(path) |->
        IF path[i].form = "plain" THEN path[i].words[1] ELSE "%"]

(* semantic_route, through percent_decode_ascii: escapes decoded, case     *)
(* folded, empty segments and the trailing '/' dropped.                    *)
SemanticRoute(path) ==
    LET decoded == FlattenSeq([i \in 1 .. Len(path) |-> path[i].words])
    IN  SelectSeq(decoded, LAMBDA word : word # "")

(* semantic_request_route, against a root of its own.                      *)
SemanticRequestRoute(path) ==
    SemanticRoute(Resolve(Base("https", "sdk.invalid", << >>), path).path)

(* semantic_route_relative_to_base.                                        *)
SemanticRouteRelativeToBase(base, url) ==
    LET dir == SemanticRoute(base.dir)
        route == SemanticRoute(url.path)
    IN  IF base.origin = url.origin /\ IsPrefix(dir, route)
        THEN {SubSeq(route, Len(dir) + 1, Len(route))} ELSE {}

Within(name, route) ==
    \E i \in 1 .. Len(route) : IsPrefix(name, SubSeq(route, i, Len(route)))

ExcludedRoutes == {<< "attestation" >>, << "internal", "gateway", "authorize" >>}

MatchesLiterally(path) ==
    \A name \in ExcludedRoutes : ~ Within(name, LiteralRoute(path))

(* tracked_inference_path, of a resolved path.                             *)
TrackedInferencePath(path) ==
    \A name \in ExcludedRoutes : ~ Within(name, SemanticRoute(path))

(* endpoint_enum.                                                          *)
PromptEndpoints ==
    {<< "chat", "completions" >>, << "messages" >>, << "responses" >>,
     << "embeddings" >>}

EndpointGroups == {"images", "videos", "models", "fusion"}

EndpointEnum(path) ==
    LET route == SemanticRequestRoute(path)
    IN  IF route \in PromptEndpoints THEN route
        ELSE IF route # << >> /\ route[1] \in EndpointGroups THEN << route[1] >>
        ELSE << "inference_other" >>

(* prompt_stream_kind: none or one of two.                                 *)
PromptStreamKind(route) ==
    CASE route = << "chat", "completions" >> -> {"chat"}
      [] route = << "responses" >> -> {"responses"}
      [] OTHER -> {}

FirstOf(kinds) ==
    LET found == {i \in DOMAIN kinds : kinds[i] # {}}
    IN  IF found = {} THEN {}
        ELSE kinds[CHOOSE i \in found : \A j \in found : i <= j]

(* response_prompt_stream_kind: relative to a base of the client, else by  *)
(* the whole path.                                                         *)
ResponsePromptStreamKind(bases, url) ==
    LET kind(base) ==
            UNION {PromptStreamKind(r) : r \in SemanticRouteRelativeToBase(base, url)}
        whole == PromptStreamKind(SemanticRoute(url.path))
    IN  FirstOf(Append([i \in 1 .. Len(bases) |-> kind(bases[i])], whole))

-----------------------------------------------------------------------------
(* host_enum.                                                              *)
RegionHosts ==
    {"api-us-central1.quillrouter.com", "api-us-east4.quillrouter.com",
     "api-europe-west4.quillrouter.com"}

(* trustedrouter_domain, of the hosts the models use.                      *)
TrustedrouterDomain(host) ==
    host \in {"trustedrouter.com", "api.trustedrouter.com",
              "status.trustedrouter.com"}

HostEnum(origin) ==
    IF origin.host = DefaultApiBaseUrl.origin.host THEN "apex"
    ELSE IF origin.host = AliasApiBaseUrls[1].origin.host THEN "ally"
    ELSE IF origin.host = AliasApiBaseUrls[2].origin.host THEN "uptime"
    ELSE IF origin.host \in RegionHosts THEN "region"
    ELSE IF origin.scheme = "https" /\ TrustedrouterDomain(origin.host)
    THEN "control"
    ELSE "custom"

ControlHost(origin) == origin.scheme = "https" /\ TrustedrouterDomain(origin.host)

(* resolve_telemetry_enabled.  The builder's option and the environment's  *)
(* are sets of at most one; an unreadable environment value is no value.   *)
ResolveTelemetryEnabled(explicit, configured, do_not_track, base, control) ==
    IF explicit # {} THEN TRUE \in explicit
    ELSE IF configured # {} THEN TRUE \in configured
    ELSE /\ ~ do_not_track
         /\ HostEnum(base.origin) # "custom"
         /\ ControlHost(control.origin)
=============================================================================
