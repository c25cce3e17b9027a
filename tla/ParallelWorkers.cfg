SPECIFICATION AuthSpec
CONSTANTS
    w1 = w1
    w2 = w2
    Workers <- TwoWorkers
    Jobs <- TwoJobs
    Plans <- TwoPlans
    MaxJobs = 1
    BatchSize = 2
CHECK_DEADLOCK FALSE
INVARIANTS AuthInv NilMeansVerified
PROPERTIES Returns
