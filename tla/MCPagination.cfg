SPECIFICATION Spec
CONSTANTS
    Keys = {1, 2, 3, 4}
    Names = {x, y}
    NoName = none
    Filters = {none, x}
    Limits <- SomeLimits
    DefaultLimit = 2
    MaxLimit = 3
    MaxFailures = 1
INVARIANTS
    TypeOK
    NothingSkipped
    NothingTwice
    OnlyMatches
PROPERTIES
    EveryWalkEnds
