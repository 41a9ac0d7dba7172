CONSTANTS
    Requests = {r1, r2}
    Fingerprints = {f1}
    TTL = 1
    LockTTL = 1
    Backoff = 1
    MaxClock = 2
SPECIFICATION Spec
PROPERTIES
    OnlyExpiredResultsAreReclaimed
