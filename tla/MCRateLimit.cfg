SPECIFICATION RateSpec
CONSTANTS
    Calls = {c1, c2, c3}
    Clients <- SomeClients
    Statuses = {200, 429}
    Headers <- OneSecond
    Second = 2
    MaxDuration = 40
    BackoffLimit = 4
    DefaultMaxRetryWait = 10
    MaxRetryJitter = 3
    Burst = 2
INVARIANTS
    RefusedOnlyBehindAQueue
PROPERTIES
    EveryCallServed
