SPECIFICATION FairClientSpec
CONSTANTS
    MinBlocks = 2
    MaxHeight = 4
    MaxCrashes = 2
CHECK_DEADLOCK FALSE
INVARIANTS SyncClientInv ReadyIsComplete
PROPERTIES SyncEnds
