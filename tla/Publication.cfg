SPECIFICATION Spec
CONSTANTS
    IDLen = 2
    Dims = 2
    ActionTypes = {1, 2}
    AuthTypes = {1, 3}
    MaxEntries = 3
    c1 = c1
    Conns = {c1}
    Txs = {1, 2}
    Expiry <- MCExpiry
    MaxPending = 1
    MaxSize = 2
    BlockWindow = 1
    MaxHeight = 3
    MaxSkips = 1
    MaxCrashes = 1
INVARIANTS
    WireExact
    StreamExact
    AnswersRight
    IndexWindow
CHECK_DEADLOCK FALSE
