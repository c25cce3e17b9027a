SPECIFICATION FSpec
CONSTANTS
    Self = "self"
    Validators = {"self", "v1"}
    RemoteChunks <- MCRemoteChunks
    Txs = {"x1", "x2"}
    ChunkExpiry = 3
    Limit = 2
    Window = 3
    Times = {1, 3, 4}
    MaxHeight = 2
    MaxRestarts = 1
    TxExpiry <- MCTxExpiry
    TxLists <- MCTxLists
    Fees = {1}
    MaxBalance = 2
INVARIANTS
    NodeInv
    Availability
    
CHECK_DEADLOCK FALSE
