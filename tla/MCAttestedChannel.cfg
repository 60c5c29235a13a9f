\* Rollout, key rotation and expiry around two challenges.
CONSTANTS
    Leeway = 0
    Workloads <- MCWorkloads
    Image <- MCImage
    Debug = {"debugged"}
    Labels = {"new"}
    Releases <- MCReleases
    Lifetime = 0
    MaxTime = 1
    MaxKeys = 2
    MaxConnections = 2
    MaxNonces = 2
    MaxTokens = 1
SPECIFICATION Spec
CHECK_DEADLOCK FALSE
INVARIANTS
    BindingIsEarned
    AcceptedIsPublishedAndFresh
    CandidatesNameTheWorkload
    GatewayIsNotRefused
