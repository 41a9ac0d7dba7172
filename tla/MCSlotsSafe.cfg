CONSTANTS
    r1 = r1
    r2 = r2
    r3 = r3
    i1 = i1
    i2 = i2
    Requests = {r1, r2, r3}
    Instances = {i1, i2}
    Owner <- MCOwner
    Max = 1
    MaxWait <- MCMaxWait
    MaxFaults = 1
SYMMETRY Symmetry
SPECIFICATION Spec
INVARIANTS
    TypeOK
    ServedWithinLimit
    WaitersWithinLimit
    NoPhantomWaiters
