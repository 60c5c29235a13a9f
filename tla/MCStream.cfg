\* Calls from their first attempt to their end or the release of the stream.
CONSTANTS
    Calls <- MCCalls
    MaxRetries = 2
    AliasCount = 1
    Responses <- MCResponses
    TransportFailures <- MCFailures
    JitterDraws <- MCJitter
    MaxFrames = 2
SPECIFICATION StreamSpec
INVARIANTS
    ResendsAreSafe
    MovesOnlyOnGatewayFailure
    PinnedCallsNeverMove
    HeaderIsTruthful
    ReportMatchesWire
    OutcomeMatchesResult
    BackoffHonoursServer
    OutcomeNamesItsMoment
PROPERTIES
    DeadlineBoundsTheCall
    SilentStreamEnds
    StreamImplementsLogicalCall
