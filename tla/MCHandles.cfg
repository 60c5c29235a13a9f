\* Two threads with clients, calls, callbacks and results in between.
CONSTANTS
    Threads = {t1, t2}
    Addresses = {1, 2, 3, 4, 5}
    MaxCalls = 4
    t1 = t1
    t2 = t2
SPECIFICATION HandlesSpec
CHECK_DEADLOCK FALSE
INVARIANTS
    AllocationsHaveOneOwner
PROPERTY
    CallsReturn
