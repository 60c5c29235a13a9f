\* A stream cut into chunks, verified at any moment, and verify_receipt.
CONSTANTS
    FutureSkew = 60
    MaxInteger = 100
    Known <- MCKnown
    Events <- MCEvents
    Options <- MCOptions
    OwnOptions <- MCOwnOptions
    MaxEvents = 4
    MaxChunk = 2
SPECIFICATION Spec
INVARIANTS
    DigestMatchesShape
    CaptureFindsTheReceipt
    AcceptedIsWhatWasSigned
    OptionsOnlyRestrict
    OptOutsForgiveAbsence
