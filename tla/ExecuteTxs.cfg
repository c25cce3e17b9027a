\* Three transactions, with every kind of failure.
CONSTANTS
    k1 = k1
    k2 = k2
    f1 = f1
    f2 = f2
    N = 3
    Keys = {k1, k2}
    Plans <- AllPlans
    MayFail = {2}
    MayReject = {3}
    BadKeys = {k2}
    FetchWorkers <- TwoWorkers
    Concurrency = 2
    MaxDependencies = 10
SPECIFICATION BlockSpec
INVARIANTS
    ConflictOrder
    ExecuteTxsInv
PROPERTY Ends
CHECK_DEADLOCK FALSE
