----------------------------- MODULE MCReporter -----------------------------
(* Reporter with two callers, windows of two ticks and caps of two.        *)
EXTENDS Reporter

Counter(level, class) ==
    [key |-> [level |-> level, endpoint |-> "chat", error_class |-> class,
              rest |-> "apex"], n |-> 1]

MCRequests ==
    {[ok |-> TRUE, certain |-> FALSE,
      counters |-> << Counter("request", "none") >>],
     [ok |-> FALSE, certain |-> TRUE,
      counters |-> << Counter("request", "dns"), Counter("attempt", "dns") >>]}

Answer(status, off, retry_after, rate, interval, pause) ==
    [status |-> status, off |-> off, retry_after |-> retry_after,
     rate |-> rate, interval |-> interval, pause |-> pause]

MCAnswers ==
    {Answer(202, FALSE, None, 0, 2, 1),
     Answer(202, FALSE, None, 100, 1, 0),
     Answer(429, TRUE, None, None, None, None),
     Answer(400, FALSE, None, None, None, None),
     Answer(413, FALSE, None, None, None, None),
     Answer(429, FALSE, 2, None, None, None)}

CallerSymmetry == Permutations(Callers)
=============================================================================
