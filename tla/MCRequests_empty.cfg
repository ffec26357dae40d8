SPECIFICATION Spec
CONSTANTS
    Calls = {c1}
    Clients <- DefaultClient
    Statuses = {200, 429}
    Headers <- NoHeaders
    Second = 1
    MaxDuration = 1000
    BackoffLimit = 9
    DefaultMaxRetryWait = 30
    MaxRetryJitter = 2
INVARIANTS
    SuccessIsFilled
