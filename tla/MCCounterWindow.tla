-------------------------- MODULE MCCounterWindow ---------------------------
(* CounterWindow with a cap of three keys over two levels, two endpoints   *)
(* and two error classes.                                                  *)
EXTENDS CounterWindow

Key(level, endpoint, class, rest) ==
    [level |-> level, endpoint |-> endpoint, error_class |-> class,
     rest |-> rest]

MCIncrements ==
    {[key |-> k, n |-> 1] :
        k \in {Key("attempt", "chat", "dns", "apex"),
               Key("attempt", "chat", "reset", "apex"),
               Key("attempt", "images", "reset", "apex"),
               Key("attempt", "chat", "reset", "ally"),
               Key("request", "chat", "dns", "apex"),
               Key("request", "images", "unknown", "apex"),
               Key("request", "inference_other", "unknown", "apex")}}
=============================================================================
