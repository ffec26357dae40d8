SPECIFICATION Spec
CONSTANTS
    Documents <- Registries
    InUse <- Registries
    Initialisms <- WordID
    Upper <- Capitals
    Second = 2
    Minute = 6
    Hour = 24
    Durations = {3}
    Integers <- SomeIntegers
    Floats <- SomeFloats
    Shortest <- ShortestDecimal
    MaxSteps = 2
INVARIANTS
    NoValueWithoutField
