----------------------------- MODULE MCRawCalls -----------------------------
(* Clients of the default endpoint, pinned and not, of a regional host, of *)
(* a deployment at a root, and with an HTTP client that follows redirects; *)
(* prompt routes, excluded ones, a grouped one and near misses.            *)
EXTENDS RawCalls

Custom == Base("https", "gateway.internal", << >>)

MCClients ==
    {[base |-> DefaultApiBaseUrl, regional_failover |-> TRUE, follows |-> TRUE],
     [base |-> DefaultApiBaseUrl, regional_failover |-> FALSE, follows |-> FALSE],
     [base |-> Base("https", "api-us-east4.quillrouter.com", << "v1" >>),
      regional_failover |-> TRUE, follows |-> FALSE],
     [base |-> Custom, regional_failover |-> TRUE, follows |-> TRUE]}

MCMeanings ==
    {<< "chat", "completions" >>, << "responses" >>,
     << "custom", "chat", "completions" >>, << "models", "m" >>,
     << "attestation" >>, << "attestations" >>,
     << "internal", "gateway", "authorize" >>}

MCRedirects ==
    {[origin |-> DefaultApiBaseUrl.origin, path |-> Plains(<< "capture" >>)],
     [origin |-> DefaultApiBaseUrl.origin, path |-> Plains(<< "v1", "responses" >>)],
     [origin |-> Origin("https", "elsewhere.example"),
      path |-> Plains(<< "chat", "completions" >>)]}
=============================================================================
