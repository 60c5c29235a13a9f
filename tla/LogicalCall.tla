---------------------------- MODULE LogicalCall -----------------------------
(***************************************************************************)
(* What one call through the SDK promises, whatever the servers do: the    *)
(* request is sent once and then only again if replaying it is safe, at    *)
(* most MaxSends times in all; the hosts are walked forward, one at a      *)
(* time, and only between two sends; the call ends once; and it is         *)
(* reported at most once, at the moment it ends.                           *)
(***************************************************************************)
EXTENDS Naturals

CONSTANT MaxSends

VARIABLES replayable, hosts, sends, host, ended, reports

vars == << replayable, hosts, sends, host, ended, reports >>

Init ==
    /\ replayable \in BOOLEAN
    /\ hosts \in Nat \ {0}
    /\ sends = 0
    /\ host = 0
    /\ ended = FALSE
    /\ reports = 0

Send ==
    /\ ~ ended
    /\ sends = 0 \/ (replayable /\ sends < MaxSends)
    /\ sends' = sends + 1
    /\ UNCHANGED << replayable, hosts, host, ended, reports >>

(* Failover: only a call that will be sent again moves.                    *)
Move ==
    /\ ~ ended
    /\ replayable /\ sends \in 1 .. MaxSends - 1
    /\ host + 1 < hosts
    /\ host' = host + 1
    /\ UNCHANGED << replayable, hosts, sends, ended, reports >>

End ==
    /\ ~ ended
    /\ ended' = TRUE
    /\ reports' \in IF sends = 0 THEN {0} ELSE {0, 1}
    /\ UNCHANGED << replayable, hosts, sends, host >>

Next == Send \/ Move \/ End

Spec == Init /\ [][Next]_vars
=============================================================================
