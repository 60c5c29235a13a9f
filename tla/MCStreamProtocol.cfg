\* A protocol error that a validator surfaces, and the record of its stream.
CONSTANTS
    Calls <- MCCalls
    MaxRetries = 2
    AliasCount = 1
    Responses <- MCResponses
    TransportFailures <- MCFailures
    JitterDraws <- MCJitter
    MaxFrames = 2
SPECIFICATION StreamSpec
INVARIANT ProtocolErrorKeepsOutcome
