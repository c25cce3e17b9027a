CONSTANTS
    Blocks <- MCBlocks
    Root = "r"
    Parent <- MCParent
    Height <- MCHeight
    Ancestors <- MCAncestors
    Invalid <- MCInvalid
    None = None
SPECIFICATION FairSpec
INVARIANTS
    SyncInv
    ApplicationView
PROPERTIES
    FinishTerminates
    AcceptedIsProcessed
CHECK_DEADLOCK FALSE
