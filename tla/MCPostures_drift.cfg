SPECIFICATION Spec
CONSTANTS
    Documents <- SomeDocuments
    InUse = {}
    Initialisms <- WordID
    Upper <- Capitals
    Second = 2
    Minute = 6
    Hour = 24
    Durations = {3}
    Integers <- SomeIntegers
    Floats <- SomeFloats
    Shortest <- ShortestDecimal
    MaxSteps = 0
INVARIANTS
    NeverGuesses
