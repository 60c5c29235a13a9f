------------------------------ MODULE Loopback ------------------------------
(***************************************************************************)
(* Signing in with OAuth (oauth.rs): the authorize URL with its PKCE       *)
(* challenge and state, the one-shot loopback listener, and the exchange   *)
(* of the captured code for a key.                                         *)
(*                                                                         *)
(* Several sign-ins run at once or one after the other, and may want the   *)
(* same port.  The authorization server and the browser are external: an   *)
(* approval redirects the browser to whatever listens on the port of the   *)
(* callback URL by then, late, twice or never; and connections that are no *)
(* callback reach the listener as well.  Verifier, challenge and state are *)
(* random, so they are named for their sign-in; hashing is injective.      *)
(***************************************************************************)
EXTENDS Integers, Sequences

CONSTANTS
    Flows,          \* the sign-ins
    Options,        \* [Flows -> what the application asks for]
    Ports,          \* the ports of the loopback interface
    MaxVisits,      \* bound: redirects of the browser
    MaxStray        \* bound: connections that are no redirect

Nobody == "nobody"

Absent == ""

Ephemeral == 0

Challenges == {"none", "S256", "method_without_challenge"}

ASSUME LoopbackAssumption ==
    /\ Nobody \notin Flows /\ Absent \notin Flows
    /\ Ephemeral \notin Ports /\ MaxVisits \in Nat
    /\ \A f \in Flows :
          /\ Options[f].port \in Ports \cup {Ephemeral}
          /\ Options[f].challenge \in Challenges
          /\ Options[f].sends_state \in BOOLEAN
          /\ Options[f].expects_state \in BOOLEAN

VARIABLES flow, owner, backlog, codes, visits, stray

vars == << flow, owner, backlog, codes, visits, stray >>

NoPath == [name |-> Absent, slash |-> FALSE, normal |-> TRUE]

NoConnection == [by |-> Nobody, path |-> NoPath, error |-> FALSE,
                 code |-> 0, state |-> Absent, heard |-> "nothing"]

NewFlow == [phase |-> "new", port |-> Ephemeral, conn |-> NoConnection,
            code |-> 0, key |-> {}]

Init ==
    /\ flow = [f \in Flows |-> NewFlow]
    /\ owner = [p \in Ports |-> Nobody]
    /\ backlog = [f \in Flows |-> << >>]
    /\ codes = << >>
    /\ visits = 0
    /\ stray = 0

(* A path is a name and whether the URL parser leaves its spelling alone:  *)
(* spaces, dot segments, a query or a fragment do not survive it.          *)
Normalised(path) == [path EXCEPT !.normal = TRUE]

(* bind keeps the path as the caller wrote it, with a leading slash, and   *)
(* advertises the parsed one.                                              *)
BoundPath(f) == [Options[f].path EXCEPT !.slash = TRUE]

CallbackUrl(f) == Normalised(BoundPath(f))

ExpectedState(f) == IF Options[f].expects_state THEN {f} ELSE {}

(* oauth_authorize_url: a method without a challenge is an error, and a    *)
(* challenge without a method is S256.                                     *)
AuthorizeUrlIsValid(f) == Options[f].challenge # "method_without_challenge"

CodeChallenge(f) == IF Options[f].challenge = "none" THEN Nobody ELSE f

-----------------------------------------------------------------------------
(* OAuthLoopback::bind; the port is taken, or the sign-in ends here.       *)
Bind(f) ==
    /\ flow[f].phase = "new"
    /\ \E port \in IF Options[f].port = Ephemeral THEN Ports ELSE {Options[f].port} :
          IF owner[port] = Nobody
          THEN /\ owner' = [owner EXCEPT ![port] = f]
               /\ flow' = [flow EXCEPT ![f].phase = "bound", ![f].port = port]
          ELSE /\ Options[f].port # Ephemeral
               /\ flow' = [flow EXCEPT ![f].phase = "failed"]
               /\ UNCHANGED owner
    /\ UNCHANGED << backlog, codes, visits, stray >>

(* The authorize URL is made and handed to the browser, and wait called.   *)
Authorize(f) ==
    /\ flow[f].phase = "bound" /\ AuthorizeUrlIsValid(f)
    /\ flow' = [flow EXCEPT ![f].phase = "waiting"]
    /\ UNCHANGED << owner, backlog, codes, visits, stray >>

(* Closing a listener frees its port and resets what waits in its backlog. *)
Closed(f) ==
    /\ owner' = [owner EXCEPT ![flow[f].port] = Nobody]
    /\ backlog' = [backlog EXCEPT ![f] = << >>]

(* The application drops the listener, or the future of wait.              *)
Cancel(f) ==
    /\ flow[f].phase \in {"bound", "waiting", "reading"}
    /\ flow' = [flow EXCEPT ![f].phase = "dropped", ![f].conn = NoConnection]
    /\ Closed(f)
    /\ UNCHANGED << codes, visits, stray >>

-----------------------------------------------------------------------------
(* External: the user approves or denies sign-in g, and the browser goes   *)
(* to the callback URL.  Each approval makes a code.  A port nobody        *)
(* listens on refuses the connection.                                      *)
Arrives(port, conn) ==
    IF owner[port] = Nobody THEN UNCHANGED backlog
    ELSE backlog' = [backlog EXCEPT ![owner[port]] = Append(@, conn)]

Visit(g, approved) ==
    /\ flow[g].phase \notin {"new", "bound"} /\ flow[g].port # Ephemeral
    /\ visits < MaxVisits
    /\ visits' = visits + 1
    /\ codes' = IF approved
                THEN Append(codes, [of |-> g, challenge |-> CodeChallenge(g),
                                    spent |-> FALSE])
                ELSE codes
    /\ Arrives(flow[g].port,
               [by |-> g, path |-> CallbackUrl(g), error |-> ~ approved,
                code |-> IF approved THEN Len(codes) + 1 ELSE 0,
                state |-> IF Options[g].sends_state THEN g ELSE Absent,
                heard |-> "nothing"])
    /\ UNCHANGED << flow, owner, stray >>

(* The browser loads a callback again.                                     *)
Reload(g, c) ==
    /\ visits < MaxVisits /\ codes[c].of = g
    /\ visits' = visits + 1
    /\ Arrives(flow[g].port,
               [by |-> g, path |-> CallbackUrl(g), error |-> FALSE, code |-> c,
                state |-> IF Options[g].sends_state THEN g ELSE Absent,
                heard |-> "nothing"])
    /\ UNCHANGED << flow, owner, codes, stray >>

(* A connection that is no callback: a preconnect, an icon, another tool.  *)
Stray(port) ==
    /\ stray < MaxStray
    /\ owner[port] # Nobody
    /\ stray' = stray + 1
    /\ Arrives(port, [NoConnection EXCEPT !.path = [name |-> "favicon.ico",
                                          slash |-> TRUE, normal |-> TRUE]])
    /\ UNCHANGED << flow, owner, codes, visits >>

(* What a peer may let the listener hear of it: its request in one piece,  *)
(* the first part of it, or that it closed the connection.  It owes none.  *)
Utterances == {"whole", "part", "end"}

Speak(f, utterance) ==
    /\ flow[f].phase = "reading" /\ flow[f].conn.heard = "nothing"
    /\ flow' = [flow EXCEPT ![f].conn.heard = utterance]
    /\ UNCHANGED << owner, backlog, codes, visits, stray >>

-----------------------------------------------------------------------------
Accept(f) ==
    /\ flow[f].phase = "waiting" /\ backlog[f] # << >>
    /\ flow' = [flow EXCEPT ![f].phase = "reading", ![f].conn = Head(backlog[f])]
    /\ backlog' = [backlog EXCEPT ![f] = Tail(@)]
    /\ UNCHANGED << owner, codes, visits, stray >>

StateOnlyIfSent(conn, path, expected) ==
    /\ Normalised(conn.path) = path
    /\ ~ conn.error
    /\ conn.code # 0
    /\ \A state \in expected : conn.state \in {state, Absent}

(* validate_callback.                                                      *)
ValidCallback(conn, path, expected) ==
    /\ Normalised(conn.path) = path
    /\ ~ conn.error
    /\ conn.code # 0
    /\ \A state \in expected : conn.state = state

(* What one read returns: a request that came in one piece; of a part, all *)
(* but the end of the code, or nothing a target can be made of; nothing of *)
(* a connection that was closed.  A code cut short is one nobody issued.   *)
CutShort == MaxVisits + 1

ReadReturns(conn) ==
    CASE conn.heard = "whole" -> {conn}
      [] conn.heard = "part" /\ conn.code # 0 ->
            {NoConnection, [conn EXCEPT !.code = CutShort]}
      [] OTHER -> {NoConnection}

ReadsToTheEnd(f) ==
    /\ flow[f].phase = "reading" /\ flow[f].conn.heard = "end"
    /\ flow' = [flow EXCEPT ![f].phase = "failed"]
    /\ Closed(f)
    /\ UNCHANGED << codes, visits, stray >>

(* The rest of wait: one read, the request line, the page for the browser  *)
(* (whose failure is ignored); socket and listener are closed.             *)
Read(f) ==
    /\ flow[f].phase = "reading" /\ flow[f].conn.heard # "nothing"
    /\ \E got \in ReadReturns(flow[f].conn) :
          IF got # NoConnection /\ ValidCallback(got, BoundPath(f), ExpectedState(f))
          THEN flow' = [flow EXCEPT ![f].phase = "captured", ![f].code = got.code,
                                    ![f].conn = NoConnection]
          ELSE flow' = [flow EXCEPT ![f].phase = "failed", ![f].conn = NoConnection]
    /\ Closed(f)
    /\ UNCHANGED << codes, visits, stray >>

-----------------------------------------------------------------------------
(* External: the server honours a code once, and only with the verifier of *)
(* its challenge.                                                          *)
Honours(c, verifier) ==
    /\ c \in DOMAIN codes
    /\ ~ codes[c].spent
    /\ codes[c].challenge \in {Nobody, verifier}

(* exchange_oauth_key: one POST with the code and the sign-in's verifier;  *)
(* the answer may be lost.                                                 *)
Exchange(f, lost) ==
    LET c == flow[f].code
    IN  /\ flow[f].phase = "captured"
        /\ IF Honours(c, f)
           THEN /\ codes' = [codes EXCEPT ![c].spent = TRUE]
                /\ flow' = IF lost THEN [flow EXCEPT ![f].phase = "failed"]
                           ELSE [flow EXCEPT ![f].phase = "signed_in",
                                             ![f].key = {codes[c].of}]
           ELSE /\ flow' = [flow EXCEPT ![f].phase = "failed"]
                /\ UNCHANGED codes
        /\ UNCHANGED << owner, backlog, visits, stray >>

Next ==
    \E f \in Flows :
       \/ Bind(f) \/ Authorize(f) \/ Cancel(f) \/ Accept(f) \/ Read(f)
       \/ \E approved \in BOOLEAN : Visit(f, approved)
       \/ \E c \in DOMAIN codes : Reload(f, c)
       \/ \E port \in Ports : Stray(port)
       \/ \E utterance \in Utterances : Speak(f, utterance)
       \/ \E lost \in BOOLEAN : Exchange(f, lost)

(* The future of wait is polled when its socket is ready.  Nobody else     *)
(* owes anything: a peer may connect and stay silent for ever.             *)
Fairness == \A f \in Flows : WF_vars(Accept(f)) /\ WF_vars(Read(f))

Spec == Init /\ [][Next]_vars /\ Fairness

-----------------------------------------------------------------------------
(* The callback of one sign-in never completes another: a listener given   *)
(* the state hands out codes of its own sign-in alone (or a code cut short *)
(* that nobody issued), whoever had the port before; and one that was not  *)
(* given it may hand out another's code, but its verifier opens only what  *)
(* was approved without a challenge (validate_callback, exchange).         *)
SignInsNeverCross ==
    \A f \in Flows :
        /\ Options[f].expects_state /\ flow[f].code \in DOMAIN codes =>
              codes[flow[f].code].of = f
        /\ \A g \in flow[f].key :
              f = g \/ (~ Options[f].expects_state /\ CodeChallenge(g) = Nobody)

(* The callback a sign-in waits for: its own approval, in one piece, with  *)
(* the state the listener was given, at a path the URL parser leaves alone.*)
OwnCallback(f, conn) ==
    /\ conn.by = f /\ ~ conn.error /\ conn.heard = "whole"
    /\ Options[f].path.normal
    /\ Options[f].expects_state => Options[f].sends_state

(* A sign-in takes the callback it waits for.  A listener with a caller in *)
(* its backlog does not go on waiting, and one that has accepted its own   *)
(* callback hands out its code as soon as the request is there, unless the *)
(* application gives up: without the peer closing first, whatever queues   *)
(* behind it, whoever had the port before, with or without the leading     *)
(* slash (bind, wait, validate_callback).  Nothing is said of a first      *)
(* caller that is another: it ends the wait, or holds it by its silence.   *)
OwnCallbackIsTaken ==
    \A f \in Flows :
        /\ flow[f].phase = "waiting" /\ backlog[f] # << >>
              ~> flow[f].phase # "waiting"
        /\ OwnCallback(f, flow[f].conn) /\ flow[f].phase = "reading"
              ~> flow[f].phase \in {"captured", "dropped"}
=============================================================================
