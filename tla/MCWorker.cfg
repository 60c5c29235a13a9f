\* The worker, its wake-ups, and close() on the thread of the worker or not.
CONSTANTS
    BackoffMin = 1
    BackoffMax = 3
    MaxPause = 3
    Answers <- MCAnswers
    InitialInterval = 2
    CloseTimeout = 2
    UrgentCount = 2
    MaxBatch = 2
    MaxLag = 1
    MaxPending = 3
SPECIFICATION WorkerSpec
INVARIANTS
    NoLostWakeUp
PROPERTIES
    FlushesKeepTheirDistance
    PendingGoesOut
    CloseEnds
