------------------------------ MODULE MCStream ------------------------------
(* Buffered and streaming calls on small instances: representative calls   *)
(* and server answers.                                                     *)
EXTENDS Stream

Hint(ms, seconds, date) == [ms |-> ms, seconds |-> seconds, date |-> date]
NoHint == Hint(None, None, NoDate)

Answer(status, verdict, hint) ==
    [status |-> status, verdict |-> verdict, hint |-> hint]

Chat == [plane |-> "inference", base |-> "default", regional_failover |-> TRUE,
         method |-> "POST", key |-> "none", mints |-> TRUE,
         streaming |-> FALSE, telemetry |-> TRUE, tracked |-> TRUE,
         deadline |-> TRUE, valid_path |-> TRUE, valid_headers |-> TRUE]

MCCalls ==
    {Chat,
     [Chat EXCEPT !.mints = FALSE],                          \* not replay-safe
     [Chat EXCEPT !.key = "", !.deadline = FALSE],           \* key suppressed
     [Chat EXCEPT !.key = "given", !.base = "custom"],
     [Chat EXCEPT !.method = "GET", !.mints = FALSE, !.base = "region"],
     [Chat EXCEPT !.plane = "control"],
     [Chat EXCEPT !.method = "PUT"],                         \* not recordable
     [Chat EXCEPT !.telemetry = FALSE],
     [Chat EXCEPT !.tracked = FALSE],
     [Chat EXCEPT !.valid_path = FALSE],
     [Chat EXCEPT !.valid_headers = FALSE],
     [Chat EXCEPT !.streaming = TRUE],
     [Chat EXCEPT !.streaming = TRUE, !.deadline = FALSE, !.base = "custom"],
     [Chat EXCEPT !.streaming = TRUE, !.regional_failover = FALSE,
                  !.telemetry = FALSE]}

MCResponses ==
    {Answer(200, "absent", NoHint),
     Answer(302, "absent", NoHint), Answer(302, "true", NoHint),
     Answer(404, "absent", NoHint), Answer(404, "true", NoHint),
     Answer(429, "absent", Hint(None, 1000, NoDate)),
     Answer(500, "absent", NoHint),
     Answer(503, "absent", Hint(700, 5, NoDate)),
     Answer(503, "true", Hint(None, None, 90000)),
     Answer(503, "false", NoHint)}

MCFailures == {[class |-> "connect_timeout", timed_out |-> TRUE],
               [class |-> "reset", timed_out |-> FALSE]}

MCJitter == {0, 1000}
=============================================================================
