SPECIFICATION Spec
CONSTANTS
    j1 = j1
    w1 = w1
    w2 = w2
    NoWorker = NoWorker
    Jobs = {j1}
    Workers = {w1, w2}
    MaxCopies = 1
    HoldAmount = 1
    OtherFrozen = 1
    Funds <- MCFunds
    MaxRetries = 1
    MaxFaults = 1
    MaxCalls = 1
SYMMETRY WorkerSymmetry
INVARIANTS
    TypeOK
    CompletedIsCharged
    HoldTakenOnce
    FailedIsFree
    InflightIsQueued
    LiveIsQueued
    HoldOfFailedReturns
    HoldStaysWhileRunning
    BalanceCoversCredit
PROPERTY FinishedIsFinal
CHECK_DEADLOCK FALSE
