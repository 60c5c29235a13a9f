--------------------------- MODULE CounterWindow ----------------------------
(***************************************************************************)
(* One minute of counters: a window that starts empty and receives the     *)
(* increments of finished calls, checked against the exact multiset of     *)
(* increments it was given.                                                *)
(***************************************************************************)
EXTENDS CounterFold

CONSTANTS
    Increments,     \* the increments calls contribute: [key, n]
    MaxIncrements   \* bound: increments per window

VARIABLES rows, given

vars == << rows, given >>

Init == rows = << >> /\ given = << >>

(* on_request merges the increments of a call one by one.                  *)
Merge ==
    /\ Len(given) < MaxIncrements
    /\ \E c \in Increments :
          /\ rows' = MergeCounter(rows, c)
          /\ given' = Append(given, c)

Full == Len(given) = MaxIncrements /\ UNCHANGED vars

Next == Merge \/ Full

Spec == Init /\ [][Next]_vars

-----------------------------------------------------------------------------
(* Folding never leaves two rows with one key, which would be sent as two  *)
(* counters and retired as one, and never lets the window outgrow its cap. *)
KeysUniqueAndBounded ==
    /\ Len(rows) <= MaxWindowKeys
    /\ \A i, j \in DOMAIN rows : rows[i].key = rows[j].key => i = j

(* The dimensions folding must not touch.                                  *)
SameSeries(a, b) == a.level = b.level /\ a.rest = b.rest

Read(k) ==
    TotalRequests(SelectSeq(rows, LAMBDA row : SameSeries(row.key, k)))

GivenLike(k) ==
    TotalRequests(SelectSeq(given, LAMBDA c : SameSeries(c.key, k)))

NoLastResort ==
    \A i \in DOMAIN given : Read(given[i].key) > 0

(* Folding drops nothing: the rows add up to what was given, and while     *)
(* every increment found a compatible row they do so in every dimension    *)
(* but the error class and the endpoint (counter_target, refold).          *)
CountsStayExact ==
    /\ TotalRequests(rows) = TotalRequests(given)
    /\ NoLastResort =>
          \A i \in DOMAIN given :
              Read(given[i].key) = GivenLike(given[i].key)
=============================================================================
