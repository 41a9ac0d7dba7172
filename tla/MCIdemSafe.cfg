CONSTANTS
    Requests = {r1, r2}
    Fingerprints = {f1, f2}
    TTL = 2
    LockTTL = 1
    Backoff = 1
    MaxClock = 3
SYMMETRY Symmetry
SPECIFICATION Spec
INVARIANTS
    TypeOK
    SingleExecutor
    ReplayMatchesRequest
PROPERTIES
    EffectOnceBeforeExpiry
    ResultIsStable
    KeepsKeyPromise
