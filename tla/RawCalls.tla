------------------------------ MODULE RawCalls ------------------------------
(* A call of validated_raw_sse (sse.rs), whose path the caller spells.     *)
(* The caller means one resource of the API and may write its path in many *)
(* ways; the engine moves the call along its candidates; an injected HTTP  *)
(* client may follow redirects, of which the SDK sees only the last URL.   *)
(* The SDK decides once, from the path and that URL, whether the call is   *)
(* traced, which endpoint it is counted under and how its stream is        *)
(* validated.                                                              *)
EXTENDS Routes

CONSTANTS
    Clients,      \* [base, regional_failover, follows]: the bases, and
                  \*   whether an injected client follows redirects
    Meanings,     \* the routes callers mean, as sequences of words
    Redirects,    \* the URLs a redirect may name
    MaxSpellings, \* bound: how often the caller changes the spelling
    MaxHops       \* bound: redirects of a call

ASSUME RawCallsAssumption ==
    /\ MaxSpellings \in Nat /\ MaxHops \in Nat
    /\ \A c \in Clients : c.regional_failover \in BOOLEAN /\ c.follows \in BOOLEAN

VARIABLES
    client,    \* the client of the call
    means,     \* the route the caller means
    path,      \* how the caller spells it
    climbs,    \* the spelling leaves the base and comes back
    spelled,   \* spellings tried so far
    phase,     \* "spelling", "sent", "rejected" or "open"
    index,     \* the candidate of the attempt
    url,       \* where the attempt's request last went
    hops,      \* redirects followed so far
    tracked,   \* the call has a recorder
    kind       \* how the stream is validated: none or one kind

vars == << client, means, path, climbs, spelled, phase, index, url, hops,
           tracked, kind >>

Bases == ApiBaseUrls(client.base, client.regional_failover)

Candidates == PlaneUrls(Bases, path)

NoUrl == [origin |-> Origin("", ""), path |-> << >>]

Init ==
    /\ client \in Clients /\ means \in Meanings
    /\ path = Plains(means) /\ climbs = FALSE /\ spelled = 0
    /\ phase = "spelling" /\ index = 0 /\ url = NoUrl /\ hops = 0
    /\ tracked = FALSE /\ kind = {}

-----------------------------------------------------------------------------
(* The ways to spell a path that leave its meaning alone (the caller's).   *)
Straight == \A i \in DOMAIN path : ~ IsDot(path[i]) /\ ~ IsDotDot(path[i])

Respellable == \A i \in DOMAIN path : path[i].form \notin {"backslash", "scheme"}

Spells(new) ==
    /\ phase = "spelling" /\ spelled < MaxSpellings /\ Respellable
    /\ path' = new
    /\ spelled' = spelled + 1
    /\ UNCHANGED << client, means, phase, index, url, hops, tracked, kind >>

(* A letter is escaped or a segment is capitalised.                        *)
Rewrite(i, form) ==
    /\ path[i].words # << "" >>
    /\ Spells([path EXCEPT ![i].form = form])
    /\ UNCHANGED climbs

(* A '/' is doubled, or trails; a doubled first one is rejected.           *)
Double(i) ==
    /\ Straight
    /\ Spells(InsertAt(path, i, NoSegment))
    /\ UNCHANGED climbs

(* A '/' is escaped, or written as a '\', which is rejected.               *)
WriteSeparator(i, form) ==
    /\ Straight
    /\ LET joined == Segment(path[i].words \o path[i + 1].words, form)
       IN  Spells(SubSeq(path, 1, i - 1) \o << joined >>
                  \o SubSeq(path, i + 2, Len(path)))
    /\ UNCHANGED climbs

(* A detour: a segment that a dot segment takes back, or a dot.            *)
Detour(i, segments) ==
    /\ Spells(SubSeq(path, 1, i - 1) \o segments \o SubSeq(path, i, Len(path)))
    /\ UNCHANGED climbs

(* Out of the base path and back into it.                                  *)
Climb ==
    /\ ~ climbs /\ client.base.dir # << >>
    /\ Spells([i \in DOMAIN client.base.dir |-> Plain("..")]
              \o client.base.dir \o path)
    /\ climbs' = TRUE

(* A whole URL is written after the '/'.                                   *)
WriteUrl(origin) ==
    /\ Spells(<< Scheme(origin.scheme), NoSegment, Plain(origin.host) >> \o path)
    /\ UNCHANGED climbs

-----------------------------------------------------------------------------
IntendedKind == PromptStreamKind(SemanticRequestRoute(path))

(* The call starts: the candidates and the recorder are settled before     *)
(* anything is sent.                                                       *)
Send ==
    /\ phase = "spelling"
    /\ IF Candidates = << >>
       THEN phase' = "rejected" /\ UNCHANGED << index, url, tracked >>
       ELSE /\ phase' = "sent"
            /\ index' = 1 /\ url' = Candidates[1]
            /\ tracked' = TrackedInferencePath(Candidates[1].path)
    /\ UNCHANGED << client, means, path, climbs, spelled, hops, kind >>

(* The engine moves to the next candidate.                                 *)
Move ==
    /\ phase = "sent" /\ index < Len(Candidates)
    /\ index' = index + 1 /\ url' = Candidates[index + 1] /\ hops' = 0
    /\ UNCHANGED << client, means, path, climbs, spelled, phase, tracked, kind >>

(* The injected client follows a redirect.                                 *)
Redirect(target) ==
    /\ phase = "sent" /\ client.follows /\ hops < MaxHops
    /\ url' = target /\ hops' = hops + 1
    /\ UNCHANGED << client, means, path, climbs, spelled, phase, index,
                    tracked, kind >>

(* The stream opens and its validation is chosen.                          *)
OpenStream ==
    /\ phase = "sent"
    /\ phase' = "open"
    /\ kind' = FirstOf(<< IntendedKind, ResponsePromptStreamKind(Bases, url) >>)
    /\ UNCHANGED << client, means, path, climbs, spelled, index, url, hops, tracked >>

Next ==
    \/ \E i \in DOMAIN path, form \in {"escaped", "upper"} : Rewrite(i, form)
    \/ \E i \in 1 .. Len(path) + 1 : Double(i)
    \/ \E i \in 1 .. Len(path) - 1, form \in {"escaped", "backslash"} :
          WriteSeparator(i, form)
    \/ \E i \in 1 .. Len(path), segments \in {<< Plain(".") >>,
             << Plain("x"), Segment(<< ".." >>, "escaped") >>} : Detour(i, segments)
    \/ Climb
    \/ \E target \in Redirects : WriteUrl(target.origin)
    \/ Send \/ Move
    \/ \E target \in Redirects : Redirect(target)
    \/ OpenStream

Spec == Init /\ [][Next]_vars

-----------------------------------------------------------------------------
(* Every candidate of a call is the resource the caller means, at the path *)
(* the configured base has, on the configured host first and elsewhere     *)
(* only on the aliases of the default endpoint (plane_urls,                *)
(* inference_base_urls: "silently redirecting their traffic to a public    *)
(* alias would be worse than failing").  Doubled and escaped separators,   *)
(* capitals and dot segments do not change that; a path that reads as a    *)
(* URL after its first '/' is excluded, for join follows it instead.       *)
CandidatesNameOneResource ==
    ~ ReadsAsUrl(path) =>
        /\ \A i \in DOMAIN Candidates :
              /\ SemanticRoute(Candidates[i].path) =
                    SemanticRoute(client.base.dir) \o means
              /\ Candidates[i].path = Candidates[1].path
              /\ \A j \in DOMAIN Candidates :
                    Candidates[i].origin = Candidates[j].origin => i = j
        /\ Candidates # << >> => Candidates[1].origin = client.base.origin
        /\ Len(Candidates) > 1 =>
              /\ client.regional_failover
              /\ client.base = DefaultApiBaseUrl

(* No spelling of a path changes how the SDK treats the call.  It is       *)
(* traced exactly when the route meant is not an excluded one, and, unless *)
(* the path climbs out of its base, counted under the same endpoint; and   *)
(* its stream is validated as the route meant asks, at least, on whichever *)
(* candidate it opens and wherever redirects led, or with no redirect even *)
(* for a path that climbs (unless it then reads as a URL: see above)       *)
(* (tracked_inference_path, endpoint_enum, validated_raw_sse).             *)
SpellingsAreOneRoute ==
    /\ phase \in {"sent", "open"} =>
          tracked = \A name \in ExcludedRoutes : ~ Within(name, means)
    /\ ~ climbs => EndpointEnum(path) = EndpointEnum(Plains(means))
    /\ phase = "open" /\ PromptStreamKind(means) # {} 
          /\ (climbs => hops = 0 /\ ~ ReadsAsUrl(path)) =>
          kind = PromptStreamKind(means)
    /\ phase = "open" /\ PromptStreamKind(means) = {} /\ hops = 0 =>
          kind = {}
=============================================================================
