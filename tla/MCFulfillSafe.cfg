SPECIFICATION Spec
CONSTANTS
    w1 = w1
    w2 = w2
    Workers = {w1, w2}
    OrderTypes = {"balance", "group"}
    Grace = 0
    LeaseTTL = 1
    MaxFaults = 1
SYMMETRY Symmetry
INVARIANTS
    TypeOK
    GrantedAtMostOnce
    CompletedMeansDelivered
    RewardedAtMostOnce
    AnnouncedOnce
PROPERTIES
    CompletionIsFinal
    PaidIsNeverCancelled
    KeepsPromise
CHECK_DEADLOCK FALSE
