SPECIFICATION Spec
CONSTANTS
    a = a
    b = b
    Callers = {a, b}
    MaxCalls = 4
    MaxGateways = 1
    Rosters <- SomeRosters
    None = none
INVARIANTS
    TypeOK
    HeldSecretWorks
    PickupIsConfirmed
    DeleteRevokes
