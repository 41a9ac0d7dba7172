SPECIFICATION FairSpec
CONSTANTS
    w1 = w1
    w2 = w2
    Workers = {w1}
    OrderTypes = {"balance", "plan", "group"}
    Grace = 0
    LeaseTTL = 1
    MaxFaults = 2
PROPERTIES
    PaidOrderSettles
CHECK_DEADLOCK FALSE
