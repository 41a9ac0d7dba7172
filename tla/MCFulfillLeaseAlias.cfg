SPECIFICATION Spec
CONSTANTS
    w1 = w1
    w2 = w2
    Workers = {w1, w2}
    OrderTypes = {"balance"}
    Grace = 0
    LeaseTTL = 1
    MaxFaults = 0
SYMMETRY Symmetry
INVARIANTS
    LeaseExclusive
CHECK_DEADLOCK FALSE
