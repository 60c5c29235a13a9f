\* The fold ladder against the increments it was given.
CONSTANTS
    MaxWindowKeys = 3
    MaxCount = 100
    MaxIncrements = 6
    Increments <- MCIncrements
SPECIFICATION Spec
INVARIANTS
    KeysUniqueAndBounded
    CountsStayExact
