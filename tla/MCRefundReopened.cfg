SPECIFICATION Spec
CONSTANTS
    w1 = w1
    w2 = w2
    w3 = w3
    Workers = {w1, w2}
    MaxFaults = 0
SYMMETRY Symmetry
PROPERTIES
    CompletedRefundIsFinal
CHECK_DEADLOCK FALSE
