---------------------------- MODULE CounterFold -----------------------------
(***************************************************************************)
(* The open counter window of the reporter (telemetry/reporter.rs):        *)
(* merging increments into a list of rows that never has more than         *)
(* MaxWindowKeys keys, by the fold ladder of counter_target.               *)
(*                                                                         *)
(* A key is [level, endpoint, error_class, rest]: rest stands for the      *)
(* seven dimensions the ladder never touches, outcome and host among them. *)
(* A row carries one count, requests; the other counts and the histograms  *)
(* are merged the same way.  Rows are kept in insertion order.             *)
(***************************************************************************)
EXTENDS Integers, Sequences, SequencesExt, FiniteSetsExt

CONSTANTS
    MaxWindowKeys,  \* TELEMETRY_MAX_WINDOW_KEYS
    MaxCount        \* the clamp on one increment (wire.rs MAX_COUNT)

ASSUME CounterFoldAssumption ==
    MaxWindowKeys \in Nat \ {0} /\ MaxCount \in Nat \ {0}

HasKey(rows, k) == \E i \in DOMAIN rows : rows[i].key = k

FoldErrorClass(k) == [k EXCEPT !.error_class = "unknown"]

FoldLevelToo(k) ==
    [FoldErrorClass(k) EXCEPT !.endpoint = "inference_other", !.level = "request"]

FoldEndpoint(k) == [FoldErrorClass(k) EXCEPT !.endpoint = "inference_other"]

FoldedKey(k, endpoint) == IF endpoint THEN FoldEndpoint(k) ELSE FoldErrorClass(k)

SameButErrorClass(a, b) ==
    a.level = b.level /\ a.endpoint = b.endpoint /\ a.rest = b.rest

SameButErrorClassAndEndpoint(a, b) == a.level = b.level /\ a.rest = b.rest

Clamped(n) == IF n > MaxCount THEN MaxCount ELSE n

MergeIncrement(n, increment) == n + Clamped(increment)

(* The first position whose row is compatible with k, 0 if there is none.  *)
FirstSameButErrorClass(rows, k) ==
    SelectInSeq(rows, LAMBDA row : SameButErrorClass(row.key, k))

FirstSameButErrorClassAndEndpoint(rows, k) ==
    SelectInSeq(rows, LAMBDA row : SameButErrorClassAndEndpoint(row.key, k))

(* refold: the row at position i moves to the end under its folded key,    *)
(* which becomes the key to add to.                                        *)
Refold(rows, i, endpoint) ==
    LET folded == FoldedKey(rows[i].key, endpoint)
    IN  [rows |-> Append(RemoveAt(rows, i),
                         [key |-> folded, n |-> MergeIncrement(0, rows[i].n)]),
         key |-> folded]

(* counter_target: the rows after any refold, and the key to add to.       *)
CounterTarget(rows, k) ==
    LET byClass == FirstSameButErrorClass(rows, k)
        byEndpoint == FirstSameButErrorClassAndEndpoint(rows, k)
    IN  IF HasKey(rows, k) \/ Len(rows) < MaxWindowKeys
        THEN [rows |-> rows, key |-> k]
        ELSE IF HasKey(rows, FoldErrorClass(k))
        THEN [rows |-> rows, key |-> FoldErrorClass(k)]
        ELSE IF byClass # 0
        THEN Refold(rows, byClass, FALSE)
        ELSE IF HasKey(rows, FoldEndpoint(k))
        THEN [rows |-> rows, key |-> FoldEndpoint(k)]
        ELSE IF byEndpoint # 0
        THEN Refold(rows, byEndpoint, TRUE)
        ELSE [rows |-> rows, key |-> rows[1].key]

AppendsAlways(rows, counter) ==
    LET target == CounterTarget(rows, counter.key)
    IN  Append(target.rows,
               [key |-> target.key, n |-> MergeIncrement(0, counter.n)])

MergeCounter(rows, counter) ==
    LET target == CounterTarget(rows, counter.key)
        at == SelectInSeq(target.rows, LAMBDA row : row.key = target.key)
    IN  IF at = 0
        THEN Append(target.rows,
                    [key |-> target.key, n |-> MergeIncrement(0, counter.n)])
        ELSE [target.rows EXCEPT ![at].n = MergeIncrement(@, counter.n)]

MergeCounters(rows, counters) == FoldLeft(MergeCounter, rows, counters)

TotalRequests(rows) ==
    FoldLeft(LAMBDA sum, row : sum + row.n, 0, rows)
=============================================================================
