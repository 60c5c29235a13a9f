\* Two callers, the worker, close(), a lossy control plane.
CONSTANTS
    MaxWindowKeys = 2
    MaxCount = 100
    Callers = {c1, c2}
    Requests <- MCRequests
    Answers <- MCAnswers
    Rates = {0, 50, 100}
    MaxEvents = 2
    MaxBatchEvents = 2
    MaxBatchCounters = 2
    MaxBatchBytes = 3
    RetentionBytes = 3
    RetentionSeconds = 1
    Minute = 2
    BackoffMin = 1
    BackoffMax = 2
    MaxPause = 2
    InitialRate = 50
    InitialInterval = 1
    MaxTime = 2
    MaxRequests = 3
SPECIFICATION Spec
CHECK_DEADLOCK FALSE
SYMMETRY CallerSymmetry
INVARIANTS
    BuffersBounded
    NothingVanishes
    ResentOnlyAfterLostAnswer
PROPERTIES
    PostsRespectTheGate
    FailuresOutliveSuccesses
