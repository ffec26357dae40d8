SPECIFICATION FairSpec
CONSTANTS
    Calls = {c1, c2}
    Clients <- SomeClients
    Statuses = {200, 304, 404, 429, 500}
    Headers <- SomeHeaders
    Second = 2
    MaxDuration = 40
    BackoffLimit = 2
    DefaultMaxRetryWait = 7
    MaxRetryJitter = 3
CONSTRAINT Scope
INVARIANTS
    TypeOK
    RetryBudget
    WaitFloor
    WaitCeiling
    AtMostOnce
    VerdictSound
    TraceInv
    RealTimeOrder
PROPERTIES
    KeepsContract
    EveryCallReturns
    CancelledCallReturns
