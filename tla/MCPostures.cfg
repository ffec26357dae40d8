SPECIFICATION Spec
CONSTANTS
    Documents <- SomeDocuments
    InUse <- Registries
    Initialisms <- WordID
    Upper <- Capitals
    Second = 2
    Minute = 6
    Hour = 24
    Durations <- SomeDurations
    Integers <- SomeIntegers
    Floats <- SomeFloats
    Shortest <- ShortestDecimal
    MaxSteps = 3
INVARIANTS
    OneConstantPerField
    MethodsAreAccepted
    StopsOnDrift
    OneShapeOnTheWire
    ConstructorsAreAccepted
    ReadsBack
    TypedLeavesFit
    DurationsAreExact
