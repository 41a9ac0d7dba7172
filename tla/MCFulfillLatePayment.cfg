SPECIFICATION FairSpec
CONSTANTS
    w1 = w1
    w2 = w2
    Workers = {w1}
    OrderTypes = {"balance"}
    Grace = 0
    LeaseTTL = 1
    MaxFaults = 0
PROPERTIES
    PaidOrderReconciles
CHECK_DEADLOCK FALSE
