SPECIFICATION Spec
CONSTANTS
    w1 = w1
    w2 = w2
    w3 = w3
    Workers = {w1}
    MaxFaults = 1
SYMMETRY Symmetry
INVARIANTS
    DeductedAtMostOnce
CHECK_DEADLOCK FALSE
