\* Two calls of one client, of two attempts each.
CONSTANTS
    Configurations <- MCConfigurations
    CallOptions <- MCCallOptions
    Uuids <- MCUuids
    MaxCalls = 2
    MaxSends = 2
SPECIFICATION Spec
CHECK_DEADLOCK FALSE
INVARIANTS
    CredentialFreeCallsCarryNone
    OneKeyPerCall
    TelemetryHeaderIsTheSdks
