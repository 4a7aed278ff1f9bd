CONSTANTS
    Client = {c1, c2}
    Request = {r1, r2}
    Bucket = {b1, b2, b3}
    Burst = 2
    Refill = 1
    IdleLimit = 3
    Period = 2
    MaxHold = 1
    MaxTime = 6
SPECIFICATION Spec
INVARIANTS
    TypeOK
    HeldIsCurrent
    AdmittedWithinRate
    IdleEntriesGo
PROPERTIES
    ImplementsTokenBucket
SYMMETRY Interchangeable
