----------------------------- MODULE MCLoopback -----------------------------
(* Sign-ins that follow one another on the default port, and one on a port *)
(* of its own choosing.                                                    *)
EXTENDS Loopback

Path(name, slash, normal) == [name |-> name, slash |-> slash, normal |-> normal]

Checked ==
    [port |-> 3000, path |-> Path("callback", TRUE, TRUE), challenge |-> "S256",
     sends_state |-> TRUE, expects_state |-> TRUE]

(* One checks the state, one has no state, and one has no challenge.       *)
MCOptions ==
    [f \in {"checked", "default", "bare"} |->
        CASE f = "checked" -> Checked
          [] f = "default" -> [Checked EXCEPT !.expects_state = FALSE,
                                              !.sends_state = FALSE,
                                              !.path.slash = FALSE]
          [] f = "bare" -> [Checked EXCEPT !.port = Ephemeral, !.challenge = "none"]]
=============================================================================
