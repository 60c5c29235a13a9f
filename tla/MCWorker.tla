------------------------------ MODULE MCWorker ------------------------------
(* Worker with an interval of two ticks, backoffs of one to three.         *)
EXTENDS Worker

Answer(kind, retry_after, interval, pause) ==
    [kind |-> kind, retry_after |-> retry_after, rate |-> None,
     interval |-> interval, pause |-> pause]

MCAnswers ==
    {Answer("accepted", None, None, None),
     Answer("accepted", None, 3, 3),
     Answer("off", None, None, None),
     Answer("too_large", None, None, None),
     Answer("busy", 3, None, None)}
=============================================================================
