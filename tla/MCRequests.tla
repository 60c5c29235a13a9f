----------------------------- MODULE MCRequests -----------------------------
(* A client of the default endpoint on the SDK's transport; one whose HTTP *)
(* client was injected with defaults and a cookie store; and one of a      *)
(* private deployment that turned telemetry on.                            *)
EXTENDS Requests

Header(name, value) == [name |-> name, value |-> value]

Builder ==
    [api_key |-> {"client key"}, workspace_id |-> {}, headers |-> {},
     base |-> DefaultApiBaseUrl, control |-> DefaultControlBaseUrl,
     regional_failover |-> TRUE, telemetry |-> {}, env |-> {},
     do_not_track |-> FALSE, injected |-> {}]

MCConfigurations ==
    {[Builder EXCEPT !.headers = {Header("cookie", "own"),
                                  Header("x-tr-client", "own"),
                                  Header("idempotency-key", "standing")}],
     [Builder EXCEPT !.workspace_id = {"client workspace"},
        !.injected = {[defaults |-> {<< "authorization", "injected" >>,
                                     << "x-tr-client", "injected" >>},
                       jar |-> TRUE]}],
     [Builder EXCEPT !.base = Base("https", "gateway.internal", << >>),
        !.telemetry = {TRUE}, !.api_key = {},
        !.injected = {[defaults |-> {}, jar |-> TRUE]}],
     [Builder EXCEPT !.base = Base("ftp", "api.trustedrouter.com", << "v1" >>)],
     [Builder EXCEPT !.do_not_track = TRUE, !.regional_failover = FALSE]}

MCCallOptions ==
    {NoOptions,
     [NoOptions EXCEPT !.idempotency_key = {Empty}, !.api_key = {Empty}],
     [NoOptions EXCEPT !.idempotency_key = {"mine"}, !.workspace_id = {"call workspace"}],
     [NoOptions EXCEPT !.headers = {Header("idempotency-key", "mine"),
                                    Header("authorization", "call"),
                                    Header("x-tr-client", "call")}],
     [NoOptions EXCEPT !.headers = {Header("x-note", "unparsable")}]}

MCUuids == << "tr-req-1", "tr-req-2" >>
=============================================================================
