SPECIFICATION Spec
CONSTANTS
    w1 = w1
    w2 = w2
    w3 = w3
    Workers = {w1, w2}
    MaxFaults = 2
SYMMETRY Symmetry
INVARIANTS
    TypeOK
    RefundedMeansReturned
    
    ChargedOnceUnlessStuck
    RefundExclusive
PROPERTIES
    RefundedIsFinal
    
CHECK_DEADLOCK FALSE
