CONSTANTS
    x1 = x1
    x2 = x2
    Txs <- TwoTxs
    Expiry <- TwoExpiries
    Window = 1
    Times <- FiveTimes
    MaxHeight = 5
    BlockWindow = 3
    MaxProcessing = 2
    MaxRestarts = 1
SPECIFICATION FairSpec
INVARIANTS
    WindowInv
    NoReplay
    VerifyIsExact
PROPERTY SyncEnds
CHECK_DEADLOCK FALSE
