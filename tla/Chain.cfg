SPECIFICATION Spec
CONSTANTS
    Dims <- FiveDims
    MillisecondsPerSecond = 2
    WindowSize = 2
    MaxUint = 40
    MinUnitPrice <- MCMinUnitPrice
    UnitPriceChangeDenominator <- MCDenominator
    WindowTargetUnits <- MCTarget
    MaxBlockUnits <- MCMaxBlock
    Accounts = {"a", "b", "c", "d"}
    Allocations <- MCAllocations
    Window = 4
    MaxActionsPerTx = 2
    BaseComputeUnits = 1
    TransferComputeUnits = 1
    AuthComputeUnits = 0
    ReadUnits = 1
    AllocateUnits = 1
    WriteUnits = 1
    Txs <- MCTxs
    SampleUnits <- MCSampleUnits
    SampleLimits <- MCSampleLimits
    Times = {2, 3, 4, 6}
    MinBlockGap = 1
    MinEmptyBlockGap = 2
    StreamBatch = 2
    TargetTxsSize = 2
    MaxHeight = 3
INVARIANTS
    
    
    FeesFollowDemand
    BuildKeepsAll
CHECK_DEADLOCK FALSE
