SPECIFICATION Spec
CONSTANTS
    Calls = {c1}
    Clients <- DefaultClient
    Statuses = {429}
    Headers <- LongHeaders
    Second = 1
    MaxDuration = 2000
    BackoffLimit = 9
    DefaultMaxRetryWait = 30
    MaxRetryJitter = 2
INVARIANTS
    NeverBelowRetryAfter
